---- MODULE Spec2Model ----
(***************************************************************************)
(* CodeJar (src/unnamed/part_002): the editor's DOM subtree, the live      *)
(* selection, the position codec (save / restore), the history manager     *)
(* and the event handlers, as a state machine.                             *)
(*                                                                         *)
(* A string is a sequence of one-character strings.  A DOM node is a       *)
(* record; the editor's children are the sequence `tree'.  A node is       *)
(* addressed by its path of child indices from the editor (<<>> is the     *)
(* editor itself), the way the code holds a reference to it.               *)
(***************************************************************************)
EXTENDS Integers, Sequences, FiniteSets, TLC

\* ------------------------------------------------------------------ bounds
\* Longest text content the editor is driven to.
MaxLen == 2
\* The history capacity. The source sets 300 (maxHistory, line 419); the model
\* runs the same code with a small capacity so that eviction is reached.
maxHistory == 2
\* Number of input events of one run of the editor.
MaxSteps == 5
\* The text the typing claims' runs may reach, and the events of such a run.
MaxText == 9
KeySteps == 2

\* ------------------------------------------------------------- DOM values
TextNode(d) == [kind |-> "text", data |-> d, ce |-> TRUE, kids |-> <<>>]
ElNode(ce, ks) == [kind |-> "el", data |-> <<>>, ce |-> ce, kids |-> ks]
IsText(n) == n.kind = "text"

\* No node: the value of an unset node variable (undefined).
NoNode == <<0>>
\* No selection: anchorNode and focusNode are null.
NoSel == [a |-> [node |-> NoNode, off |-> 0], f |-> [node |-> NoNode, off |-> 0]]
BP(n, o) == [node |-> n, off |-> o]

Front(s) == SubSeq(s, 1, Len(s) - 1)
Last(s) == s[Len(s)]
Min(a, b) == IF a <= b THEN a ELSE b
Max(a, b) == IF a >= b THEN a ELSE b

RECURSIVE textContent(_)
textContent(ks) ==
  IF ks = <<>> THEN <<>>
  ELSE (IF IsText(ks[1]) THEN ks[1].data ELSE textContent(ks[1].kids))
       \o textContent(Tail(ks))

\* childNodes of the element at path p.
RECURSIVE KidsAt(_, _)
KidsAt(ks, p) == IF p = <<>> THEN ks ELSE KidsAt(ks[p[1]].kids, Tail(p))

NodeAt(ks, p) == KidsAt(ks, Front(p))[Last(p)]

\* nodeType === Node.ELEMENT_NODE (the editor is an element).
IsElementAt(ks, p) == p = <<>> \/ ~IsText(NodeAt(ks, p))

NodeLength(ks, p) ==
  IF IsElementAt(ks, p) THEN Len(KidsAt(ks, p)) ELSE Len(NodeAt(ks, p).data)

RECURSIVE SetKidsAt(_, _, _)
SetKidsAt(ks, p, new) ==
  IF p = <<>> THEN new
  ELSE [ks EXCEPT ![p[1]] =
          [kind |-> ks[p[1]].kind, data |-> ks[p[1]].data, ce |-> ks[p[1]].ce,
           kids |-> SetKidsAt(ks[p[1]].kids, Tail(p), new)]]

\* Mutation of insertBefore: the text node put in holds a space.
insertSpace(ks, parent, k, node) ==
  SetKidsAt(ks, parent,
            SubSeq(KidsAt(ks, parent), 1, k) \o <<TextNode(<<" ">>)>>
              \o SubSeq(KidsAt(ks, parent), k + 1, Len(KidsAt(ks, parent))))

\* parent.insertBefore(node, parent.childNodes[k]); k = childNodes.length appends.
insertBefore(ks, parent, k, node) ==
  SetKidsAt(ks, parent,
            SubSeq(KidsAt(ks, parent), 1, k) \o <<node>>
              \o SubSeq(KidsAt(ks, parent), k + 1, Len(KidsAt(ks, parent))))

\* The path of the node a reference q denotes, after a node was inserted as
\* child number k (from 0) of parent.
ShiftPath(q, parent, k) ==
  IF /\ q # NoNode
     /\ Len(q) > Len(parent)
     /\ SubSeq(q, 1, Len(parent)) = parent
     /\ q[Len(parent) + 1] >= k + 1
  THEN [q EXCEPT ![Len(parent) + 1] = @ + 1]
  ELSE q

\* A live boundary point after that insertion (DOM "insert": offsets greater
\* than the index move right).
ShiftBP(b, parent, k) ==
  [node |-> ShiftPath(b.node, parent, k),
   off |-> IF b.node = parent /\ b.off > k THEN b.off + 1 ELSE b.off]

ShiftSel(s, parent, k) ==
  IF s = NoSel THEN s ELSE [a |-> ShiftBP(s.a, parent, k), f |-> ShiftBP(s.f, parent, k)]

\* ------------------------------------------------------ Node.normalize()
\* First index of the run of adjacent text nodes that holds child i.
RECURSIVE RunStart(_, _)
RunStart(ks, i) ==
  IF i > 1 /\ IsText(ks[i - 1]) THEN RunStart(ks, i - 1) ELSE i

\* First non-empty text node of the run from j up to i, or 0.
RECURSIVE FirstNonEmpty(_, _, _)
FirstNonEmpty(ks, j, i) ==
  IF j > i THEN 0
  ELSE IF Len(ks[j].data) > 0 THEN j
  ELSE FirstNonEmpty(ks, j + 1, i)

RECURSIVE SumLen(_, _, _)
SumLen(ks, j, i) == IF j > i THEN 0 ELSE Len(ks[j].data) + SumLen(ks, j + 1, i)

RECURSIVE normalize(_)
normalize(ks) ==
  IF ks = <<>> THEN <<>>
  ELSE LET rest == normalize(Tail(ks))
           n == ks[1]
       IN IF ~IsText(n) THEN <<ElNode(n.ce, normalize(n.kids))>> \o rest
          ELSE IF Len(n.data) = 0 THEN rest
          ELSE IF Len(ks) > 1 /\ IsText(ks[2]) /\ rest # <<>> /\ IsText(rest[1])
                  /\ FirstNonEmpty(ks, 2, Len(ks)) # 0
                  /\ RunStart(ks, FirstNonEmpty(ks, 2, Len(ks))) = 1
               THEN <<TextNode(n.data \o rest[1].data)>> \o Tail(rest)
          ELSE <<n>> \o rest

\* Number of children the first k children leave after normalize().
NormCount(ks, k) == Len(normalize(SubSeq(ks, 1, k)))

\* Where normalize() leaves a live boundary point (DOM "normalize": a point in
\* a removed empty text node moves to its parent; a point in or before a
\* merged text node moves into the node it is merged into).
RECURSIVE normalizeBP(_, _)
normalizeBP(ks, b) ==
  IF b.node = <<>> THEN
    LET k == b.off
        s == IF k < Len(ks) /\ IsText(ks[k + 1]) THEN RunStart(ks, k + 1) ELSE 0
        i0 == IF s = 0 THEN 0 ELSE FirstNonEmpty(ks, s, k)
    IN IF i0 # 0
       THEN BP(<<NormCount(ks, k)>>, SumLen(ks, i0, k))
       ELSE BP(<<>>, NormCount(ks, k))
  ELSE
    LET i == b.node[1]
    IN IF ~IsText(ks[i])
       THEN LET r == normalizeBP(ks[i].kids, BP(Tail(b.node), b.off))
            IN BP(<<NormCount(ks, i - 1) + 1>> \o r.node, r.off)
       ELSE LET s == RunStart(ks, i)
                i0 == FirstNonEmpty(ks, s, i)
            IN IF i0 = 0
               THEN BP(<<>>, NormCount(ks, i - 1))
               ELSE BP(<<NormCount(ks, i)>>, b.off + SumLen(ks, i0, i - 1))

normalizeSel(ks, s) ==
  IF s = NoSel THEN s ELSE [a |-> normalizeBP(ks, s.a), f |-> normalizeBP(ks, s.f)]

\* ------------------------------------------------------------------ visit
hasNextSibling(ks, p) == Last(p) < Len(KidsAt(ks, Front(p)))
hasFirstChild(ks, p) == ~IsText(NodeAt(ks, p)) /\ NodeAt(ks, p).kids # <<>>

\* The loop of visit(): pop a node, hand it to the visitor, push its next
\* sibling and then its first child. The result is the order the visitor is
\* called in (a visitor's 'stop' cuts it short, see saveVisit, restoreVisit).
RECURSIVE visitLoop(_, _, _)
visitLoop(ks, queue, acc) ==
  IF queue = <<>> THEN acc
  ELSE LET el == Last(queue)
           q0 == Front(queue)
           q1 == IF hasNextSibling(ks, el)
                 THEN Append(q0, Front(el) \o <<Last(el) + 1>>) ELSE q0
           q2 == IF hasFirstChild(ks, el) THEN Append(q1, el \o <<1>>) ELSE q1
       IN visitLoop(ks, q2, Append(acc, el))

visit(ks) == visitLoop(ks, IF ks # <<>> THEN << <<1>> >> ELSE <<>>, <<>>)

\* ------------------------------------------------------------------- save
\* dir: "->", "<-" or "" (undefined).
Pos(s, e, d) == [start |-> s, end |-> e, dir |-> d]

\* The visitor of save(), from the i-th visited node on.
RECURSIVE saveVisit(_, _, _, _, _, _)
saveVisit(ks, order, i, a, f, pos) ==
  IF i > Len(order) THEN pos
  ELSE LET el == order[i]
           n == NodeAt(ks, el)
       IN IF el = a.node /\ el = f.node
          THEN Pos(pos.start + a.off, pos.end + f.off,
                   IF a.off <= f.off THEN "->" ELSE "<-")
          ELSE IF el = a.node /\ pos.dir # ""
          THEN Pos(pos.start + a.off, pos.end, pos.dir)
          ELSE IF el = f.node /\ el # a.node /\ pos.dir # ""
          THEN Pos(pos.start, pos.end + f.off, pos.dir)
          ELSE LET p1 == IF el = a.node THEN Pos(pos.start + a.off, pos.end, "->")
                         ELSE IF el = f.node THEN Pos(pos.start, pos.end + f.off, "<-")
                         ELSE pos
                   p2 == IF IsText(n)
                         THEN Pos(IF p1.dir # "->" THEN p1.start + Len(n.data) ELSE p1.start,
                                  IF p1.dir # "<-" THEN p1.end + Len(n.data) ELSE p1.end,
                                  p1.dir)
                         ELSE p1
               IN saveVisit(ks, order, i + 1, a, f, p2)

\* save(): [thrown, pos, tree, sel]. tree and sel are the DOM and the live
\* selection it leaves (it inserts empty text nodes and normalizes).
\* Mutation of error1: without a selection save() returns the zero position.
zeroPosition(ks, s) == [thrown |-> "", pos |-> Pos(0, 0, "->"), tree |-> ks, sel |-> s]

\* if (!anchorNode || !focusNode) throw 'error1'
error1(ks, s) == [thrown |-> "error1", pos |-> Pos(0, 0, ""), tree |-> ks, sel |-> s]

\* The anchor is made a text node (lines 151-156): [ks, live, a, fnode, foff].
\* live is the live selection; a the anchor as save() holds it; fnode the
\* focus node, the same node as before the insertion; foff the focusOffset,
\* which was read before the insertion.
saveAnchor(ks, s) ==
  IF IsElementAt(ks, s.a.node)
  THEN [ks |-> insertBefore(ks, s.a.node, s.a.off, TextNode(<<>>)),
        live |-> ShiftSel(s, s.a.node, s.a.off),
        a |-> BP(s.a.node \o <<s.a.off + 1>>, 0),
        fnode |-> ShiftPath(s.f.node, s.a.node, s.a.off),
        foff |-> s.f.off]
  ELSE [ks |-> ks, live |-> s, a |-> s.a, fnode |-> s.f.node, foff |-> s.f.off]

\* The focus is made a text node (lines 157-162): [ks, live, a, f].
saveFocus(x) ==
  IF IsElementAt(x.ks, x.fnode)
  THEN [ks |-> insertBefore(x.ks, x.fnode, x.foff, TextNode(<<>>)),
        live |-> ShiftSel(x.live, x.fnode, x.foff),
        a |-> BP(ShiftPath(x.a.node, x.fnode, x.foff), x.a.off),
        f |-> BP(x.fnode \o <<x.foff + 1>>, 0)]
  ELSE [ks |-> x.ks, live |-> x.live, a |-> x.a, f |-> BP(x.fnode, x.foff)]

\* Mutation of saveResult: start and end are put in document order.
saveResultOrdered(x) ==
  [thrown |-> "",
   pos |-> Pos(Min(saveVisit(x.ks, visit(x.ks), 1, x.a, x.f, Pos(0, 0, "")).start,
                   saveVisit(x.ks, visit(x.ks), 1, x.a, x.f, Pos(0, 0, "")).end),
               Max(saveVisit(x.ks, visit(x.ks), 1, x.a, x.f, Pos(0, 0, "")).start,
                   saveVisit(x.ks, visit(x.ks), 1, x.a, x.f, Pos(0, 0, "")).end),
               saveVisit(x.ks, visit(x.ks), 1, x.a, x.f, Pos(0, 0, "")).dir),
   tree |-> normalize(x.ks), sel |-> normalizeSel(x.ks, x.live)]

\* The visit and editor.normalize() (lines 164-195).
saveResult(x) ==
  [thrown |-> "",
   pos |-> saveVisit(x.ks, visit(x.ks), 1, x.a, x.f, Pos(0, 0, "")),
   tree |-> normalize(x.ks), sel |-> normalizeSel(x.ks, x.live)]

\* Anchor and focus are both the editor element (lines 142-147).
saveEditor(ks, s, len) ==
  [thrown |-> "",
   pos |-> Pos(IF s.a.off > 0 /\ len > 0 THEN len ELSE 0,
               IF s.f.off > 0 /\ len > 0 THEN len ELSE 0,
               IF s.f.off >= s.a.off THEN "->" ELSE "<-"),
   tree |-> ks, sel |-> s]

save(ks, s) ==
  IF s = NoSel THEN error1(ks, s)
  ELSE IF s.a.node = <<>> /\ s.f.node = <<>> THEN saveEditor(ks, s, Len(textContent(ks)))
  ELSE saveResult(saveFocus(saveAnchor(ks, s)))

\* ---------------------------------------------------------------- restore
\* uneditable(node): the closest inclusive ancestor below the editor that is
\* an element with contenteditable="false", or NoNode.
RECURSIVE uneditable(_, _)
uneditable(ks, node) ==
  IF node = NoNode \/ node = <<>> THEN NoNode
  ELSE IF ~IsText(NodeAt(ks, node)) /\ ~NodeAt(ks, node).ce THEN node
  ELSE uneditable(ks, Front(node))

\* The visitor of restore(), from the i-th visited node on.
\* w = [sn, so, en, eo, current].
RECURSIVE restoreVisit(_, _, _, _, _, _)
restoreVisit(ks, order, i, pstart, pend, w) ==
  IF i > Len(order) THEN w
  ELSE LET el == order[i]
           n == NodeAt(ks, el)
       IN IF ~IsText(n) THEN restoreVisit(ks, order, i + 1, pstart, pend, w)
          ELSE LET len == Len(n.data)
                   hit == w.current + len > pstart
                   w1 == IF hit /\ w.sn = NoNode
                         THEN [w EXCEPT !.sn = el, !.so = pstart - w.current] ELSE w
               IN IF hit /\ w.current + len > pend
                  THEN [w1 EXCEPT !.en = el, !.eo = pend - w.current]
                  ELSE restoreVisit(ks, order, i + 1, pstart, pend,
                                    [w1 EXCEPT !.current = w.current + len])

\* setBaseAndExtent throws IndexSizeError for an offset outside the node.
ValidBP(ks, b) == b.off >= 0 /\ b.off <= NodeLength(ks, b.node)

\* pos as restore leaves it (lines 203-212): dir set, start and end not
\* negative, and flipped when the direction is reversed.
restorePos(pos) ==
  IF pos.dir = "<-"
  THEN Pos(Max(pos.end, 0), Max(pos.start, 0), "<-")
  ELSE Pos(Max(pos.start, 0), Max(pos.end, 0), "->")

\* Mutation of restoreEnds: the nodes are not flipped back.
restoreEndsForward(ks, dir, w) ==
  [startNode |-> IF w.sn = NoNode THEN <<>> ELSE w.sn,
   startOffset |-> IF w.sn = NoNode THEN Len(ks) ELSE w.so,
   endNode |-> IF w.en = NoNode THEN <<>> ELSE w.en,
   endOffset |-> IF w.en = NoNode THEN Len(ks) ELSE w.eo]

\* The nodes and offsets the visit found (lines 234-240): the defaults, and
\* the flip back: [startNode, startOffset, endNode, endOffset].
restoreEnds(ks, dir, w) ==
  IF dir = "<-"
  THEN [startNode |-> IF w.en = NoNode THEN <<>> ELSE w.en,
        startOffset |-> IF w.en = NoNode THEN Len(ks) ELSE w.eo,
        endNode |-> IF w.sn = NoNode THEN <<>> ELSE w.sn,
        endOffset |-> IF w.sn = NoNode THEN Len(ks) ELSE w.so]
  ELSE [startNode |-> IF w.sn = NoNode THEN <<>> ELSE w.sn,
        startOffset |-> IF w.sn = NoNode THEN Len(ks) ELSE w.so,
        endNode |-> IF w.en = NoNode THEN <<>> ELSE w.en,
        endOffset |-> IF w.en = NoNode THEN Len(ks) ELSE w.eo]

\* If the start node is not editable, a text node is created (lines 244-250).
\* startEl = uneditable(startNode): [ks, live, startNode, startOffset,
\* endNode, endOffset].
restoreStart(ks, s, e, startEl) ==
  IF startEl # NoNode
  THEN [ks |-> insertBefore(ks, Front(startEl), Last(startEl) - 1, TextNode(<<>>)),
        live |-> ShiftSel(s, Front(startEl), Last(startEl) - 1),
        startNode |-> startEl, startOffset |-> 0,
        endNode |-> ShiftPath(e.endNode, Front(startEl), Last(startEl) - 1),
        endOffset |-> e.endOffset]
  ELSE [ks |-> ks, live |-> s, startNode |-> e.startNode, startOffset |-> e.startOffset,
        endNode |-> e.endNode, endOffset |-> e.endOffset]

\* If the end node is not editable, a text node is created (lines 251-257).
\* endEl = uneditable(endNode).
restoreEnd(x, endEl) ==
  IF endEl # NoNode
  THEN [ks |-> insertBefore(x.ks, Front(endEl), Last(endEl) - 1, TextNode(<<>>)),
        live |-> ShiftSel(x.live, Front(endEl), Last(endEl) - 1),
        startNode |-> ShiftPath(x.startNode, Front(endEl), Last(endEl) - 1),
        startOffset |-> x.startOffset,
        endNode |-> endEl, endOffset |-> 0]
  ELSE x

\* s.setBaseAndExtent(...) and editor.normalize() (lines 260-261).
restoreSet(x, p) ==
  IF /\ ValidBP(x.ks, BP(x.startNode, x.startOffset))
     /\ ValidBP(x.ks, BP(x.endNode, x.endOffset))
  THEN [thrown |-> "", pos |-> p, tree |-> normalize(x.ks),
        sel |-> normalizeSel(x.ks, [a |-> BP(x.startNode, x.startOffset),
                                    f |-> BP(x.endNode, x.endOffset)])]
  ELSE [thrown |-> "IndexSizeError", pos |-> p, tree |-> x.ks, sel |-> x.live]

restoreEndOf(x) == restoreEnd(x, uneditable(x.ks, x.endNode))

\* If nodes not editable, create a text node (lines 242-258).
restoreEditable(ks, s, e) ==
  restoreEndOf(restoreStart(ks, s, e, uneditable(ks, e.startNode)))

\* restore(pos): [thrown, pos, tree, sel]. pos is the argument object as the
\* call leaves it (restore assigns to pos.dir, pos.start and pos.end).
restoreAt(ks, s, p) ==
  restoreSet(
    restoreEditable(ks, s,
      restoreEnds(ks, p.dir,
        restoreVisit(ks, visit(ks), 1, p.start, p.end,
                     [sn |-> NoNode, so |-> 0, en |-> NoNode, eo |-> 0, current |-> 0]))),
    p)

restore(ks, s, pos) == restoreAt(ks, s, restorePos(pos))

\* ---------------------------------------------- innerHTML and textContent
OpenTag(ce) == IF ce THEN "<span>" ELSE "<span contenteditable=\"false\">"
CloseTag == "</span>"
IsOpenTag(t) == t = OpenTag(TRUE) \/ t = OpenTag(FALSE)

EscapeChar(c) ==
  IF c = "&" THEN "&amp;" ELSE IF c = "<" THEN "&lt;" ELSE IF c = ">" THEN "&gt;" ELSE c
UnescapeChar(t) ==
  IF t = "&amp;" THEN "&" ELSE IF t = "&lt;" THEN "<" ELSE IF t = "&gt;" THEN ">" ELSE t

\* editor.innerHTML (read): the markup of the children, as a sequence of
\* tokens (an escaped character, an opening tag, a closing tag).
RECURSIVE innerHTML(_)
innerHTML(ks) ==
  IF ks = <<>> THEN <<>>
  ELSE (IF IsText(ks[1])
        THEN [i \in 1..Len(ks[1].data) |-> EscapeChar(ks[1].data[i])]
        ELSE <<OpenTag(ks[1].ce)>> \o innerHTML(ks[1].kids) \o <<CloseTag>>)
       \o innerHTML(Tail(ks))

\* The HTML parser on the tokens from the i-th on, up to the closing tag of
\* the enclosing element: [kids, next].
RECURSIVE parseNodes(_, _)
parseNodes(toks, i) ==
  IF i > Len(toks) \/ toks[i] = CloseTag THEN [kids |-> <<>>, next |-> i]
  ELSE IF IsOpenTag(toks[i])
  THEN LET inner == parseNodes(toks, i + 1)
           rest == parseNodes(toks, inner.next + 1)
       IN [kids |-> <<ElNode(toks[i] = OpenTag(TRUE), inner.kids)>> \o rest.kids,
           next |-> rest.next]
  ELSE LET rest == parseNodes(toks, i + 1)
           c == UnescapeChar(toks[i])
       IN IF i < Len(toks) /\ toks[i + 1] # CloseTag /\ ~IsOpenTag(toks[i + 1])
          THEN [kids |-> <<TextNode(<<c>> \o rest.kids[1].data)>> \o Tail(rest.kids),
                next |-> rest.next]
          ELSE [kids |-> <<TextNode(<<c>>)>> \o rest.kids, next |-> rest.next]

\* editor.innerHTML = html
parseHTML(toks) == parseNodes(toks, 1).kids

\* editor.textContent = text
textNodes(text) == IF text = <<>> THEN <<>> ELSE <<TextNode(text)>>

\* Replacing all children leaves a live selection inside the editor collapsed
\* at (editor, 0).
ResetSel(s) == IF s = NoSel THEN s ELSE [a |-> BP(<<>>, 0), f |-> BP(<<>>, 0)]

\* Absolute text offset of a boundary point.
RECURSIVE AbsOffset(_, _)
AbsOffset(ks, b) ==
  IF b.node = <<>> THEN Len(textContent(SubSeq(ks, 1, b.off)))
  ELSE Len(textContent(SubSeq(ks, 1, b.node[1] - 1)))
       + (IF IsText(ks[b.node[1]]) THEN b.off
          ELSE AbsOffset(ks[b.node[1]].kids, BP(Tail(b.node), b.off)))

\* String.prototype.slice(from, to) for from, to >= 0.
slice(text, from, to) == SubSeq(text, Min(from, Len(text)) + 1, Min(to, Len(text)))

\* ------------------------------------------------------------- highlighter
\* The host's highlight(editor) callback. Three hosts: one that leaves the
\* DOM alone, one that re-renders the text as one text node, and one that
\* wraps every bracket in an element of its own. (A fourth, "pick", renders
\* the text as any tree the step chooses, see highlight.)
IsBracket(c) == c \in {"(", ")", "{", "}", "[", "]"}

RECURSIVE tokenNodes(_)
tokenNodes(text) ==
  IF text = <<>> THEN <<>>
  ELSE IF IsBracket(text[1])
  THEN <<ElNode(TRUE, <<TextNode(<<text[1]>>)>>)>> \o tokenNodes(Tail(text))
  ELSE LET rest == tokenNodes(Tail(text))
       IN IF rest # <<>> /\ IsText(rest[1])
          THEN <<TextNode(<<text[1]>> \o rest[1].data)>> \o Tail(rest)
          ELSE <<TextNode(<<text[1]>>)>> \o rest

Render(kind, ks) ==
  IF kind = "none" THEN ks
  ELSE IF kind = "plain" THEN textNodes(textContent(ks))
  ELSE tokenNodes(textContent(ks))

\* ------------------------------------------------------------------ state
VARIABLES
  tree,       \* the editor's child nodes
  sel,        \* the document's live selection (NoSel: no anchor, no focus)
  history,    \* const history: HistoryRecord[] (a JavaScript array: may hold holes)
  at,         \* let at = -1
  focus,      \* let focus = false
  recording,  \* let recording = false
  prev,       \* let prev: string (code content prior keydown event)
  hlTimer,    \* debounceHighlight: a call is pending
  recTimer,   \* debounceRecordHistory: the event of the pending call, or NoEvent
  listening,  \* the listeners are attached to the editor
  options,    \* const options: Options
  isLegacy,   \* let isLegacy (plaintext-only is not supported)
  onUpdate,   \* let onUpdate: the registered callback
  hl,         \* the host's highlight function
  out,        \* what the last operation did: [op, thrown, calls, prevented, ret],
              \* and again: the operation before it was the same one
  steps,      \* number of operations so far
  law,        \* the run so far as edits, then undos, then redos (see LawKey)
  pasted,     \* the text before the paste that was the last input (see NoPaste)
  held,       \* the keys that are down and whether the text awaits a highlight
  timers      \* the window's list of active timers and the handles of debounce

vars == <<tree, sel, history, at, focus, recording, prev, hlTimer, recTimer,
          listening, options, isLegacy, onUpdate, hl, out, steps,
          law, pasted, held, timers>>

\* undefined, as the value of `prev' before the first keydown.
Undefined == <<"undefined">>
\* An array slot that holds no record (history[at] is undefined).
Hole == [html |-> Undefined, pos |-> Pos(0 - 1, 0 - 1, "")]

\* No position: save() returned nothing.
NoPos == Pos(0 - 1, 0 - 1, "")

Ev(key, ctrl, shift) ==
  [key |-> key, ctrl |-> ctrl, shift |-> shift, isComposing |-> FALSE]
\* The event of a key that is part of a composition session (an input method).
Composing(ev) == [ev EXCEPT !.isComposing = TRUE]
NoEvent == Ev("", FALSE, FALSE)

DefaultOptions ==
  [tab |-> <<"\t">>, preserveIdent |-> TRUE, catchTab |-> TRUE,
   addClosing |-> TRUE, history |-> TRUE]

\* The program's variables as one record, which the handlers transform, with
\* what the running handler has done so far: thrown ("" when nothing was
\* thrown), calls (the host callbacks it invoked), prevented
\* (event.defaultPrevented), ret (the position a call of save() returned),
\* pick (the children the host's highlighter renders, for the host that
\* is given as "pick"), key (the keyboard event that is handled), clip (the
\* text put on the clipboard), arg (the argument the update callback got),
\* input (the argument of the method the host called) and edits (the key
\* handlers of the keydown listener that changed the content or the selection).
Cur ==
  [tree |-> tree, sel |-> sel, history |-> history, at |-> at, focus |-> focus,
   recording |-> recording, prev |-> prev, hlTimer |-> hlTimer,
   recTimer |-> recTimer, listening |-> listening, options |-> options,
   isLegacy |-> isLegacy, onUpdate |-> onUpdate, hl |-> hl,
   thrown |-> "", calls |-> {}, prevented |-> FALSE, ret |-> NoPos, pick |-> <<>>,
   key |-> NoEvent, clip |-> Undefined, arg |-> Undefined, input |-> Undefined,
   edits |-> {}, timers |-> timers]

Ok(m) == m.thrown = ""

\* m after a call of save() or restore() that returned r: m.ret is the
\* position it returned (save) or left in its argument (restore).
Apply(m, r) ==
  [m EXCEPT !.tree = r.tree, !.sel = r.sel, !.thrown = r.thrown, !.ret = r.pos]

toString(m) == textContent(m.tree)

\* The selection's range as text offsets: <<start, end>>.
getRange(m) ==
  <<Min(AbsOffset(m.tree, m.sel.a), AbsOffset(m.tree, m.sel.f)),
    Max(AbsOffset(m.tree, m.sel.a), AbsOffset(m.tree, m.sel.f))>>

getSelection_toString(m) == slice(toString(m), getRange(m)[1], getRange(m)[2])

\* beforeCursor(), afterCursor(): the text before the start and after the
\* end of the selection's range.
beforeCursor(m) == slice(toString(m), 0, getRange(m)[1])
afterCursor(m) == slice(toString(m), getRange(m)[2], Len(toString(m)))

setTextContent(m, text) ==
  [m EXCEPT !.tree = textNodes(text), !.sel = ResetSel(m.sel)]

setInnerHTML(m, html) ==
  [m EXCEPT !.tree = parseHTML(html), !.sel = ResetSel(m.sel)]

\* highlight(editor): the host's callback runs.
highlight(m) ==
  [m EXCEPT !.tree = IF m.hl = "pick" THEN m.pick ELSE Render(m.hl, m.tree),
            !.sel = IF m.hl = "none" THEN m.sel ELSE ResetSel(m.sel),
            !.calls = m.calls \cup {"highlight"}]

\* onUpdate(code)
callOnUpdate(m, code) == [m EXCEPT !.calls = m.calls \cup {m.onUpdate}, !.arg = code]

doSave(m) == Apply(m, save(m.tree, m.sel))

\* No argument.
Nil == <<>>

\* call(f, m, x): the closure's function f is called with the argument x
\* when the variables are m. A call that comes after a throw does not happen
\* (the exception leaves the handler).
RECURSIVE call(_, _, _)

\* ----------------------------------------------------------------- insert
insert(m, inserted) ==
  LET m1 == call("save", m, Nil)
      text == toString(m1)
      before == slice(text, 0, m1.ret.start)
      after == slice(text, m1.ret.end, Len(text))
      start == m1.ret.start + Len(inserted)
  IN IF ~Ok(m1) THEN m1
     ELSE call("restore", setTextContent(m1, before \o inserted \o after),
               Pos(start, start, ""))

\* ------------------------------------------------------------ findPadding
RECURSIVE lineStart(_, _)
lineStart(text, i) ==
  IF i >= 0 /\ text[i + 1] # "\n" THEN lineStart(text, i - 1) ELSE i + 1

RECURSIVE paddingEnd(_, _)
paddingEnd(text, j) ==
  IF j < Len(text) /\ text[j + 1] \in {" ", "\t"} THEN paddingEnd(text, j + 1) ELSE j

\* Mutation of paddingFrom: one test of the character at i in place of the loop.
paddingFromOne(text, i) ==
  IF i < Len(text) /\ text[i + 1] \in {" ", "\t"}
  THEN <<slice(text, i, i + 1), i, i + 1>>
  ELSE <<<<>>, i, i>>

\* [text.substring(i, j), i, j] for the j where the padding from i ends
paddingFrom(text, i) == <<slice(text, i, paddingEnd(text, i)), i, paddingEnd(text, i)>>

\* Mutation of findPadding: the line's padding is not seen.
findPaddingNone(text) ==
  <<<<>>, lineStart(text, Len(text) - 1), lineStart(text, Len(text) - 1)>>

\* findPadding(text): <<padding, i, j>>
findPadding(text) == paddingFrom(text, lineStart(text, Len(text) - 1))

\* options.indentOn = /[({\[]$/ and options.moveToNewLine = /^[)}\]]/
indentOn(text) == text # <<>> /\ Last(text) \in {"(", "{", "["}
moveToNewLine(text) == text # <<>> /\ text[1] \in {")", "}", "]"}

\* ----------------------------------------------------------- key handlers
\* Mutation of preventDefault: the default action stays.
preventNothing(m) == m

preventDefault(m) == [m EXCEPT !.prevented = TRUE]

getKey(ev) == IF ev.key = "z" THEN "Z" ELSE IF ev.key = "c" THEN "C" ELSE ev.key
isCtrl(ev) == ev.ctrl
isUndo(ev) == isCtrl(ev) /\ ~ev.shift /\ getKey(ev) = "Z"
isRedo(ev) == isCtrl(ev) /\ ev.shift /\ getKey(ev) = "Z"
isCopy(ev) == isCtrl(ev) /\ getKey(ev) = "C"

shouldRecord(ev) ==
  /\ ~isUndo(ev) /\ ~isRedo(ev)
  /\ ev.key # "Meta" /\ ev.key # "Control" /\ ev.key # "Alt"
  /\ ev.key \notin {"ArrowLeft", "ArrowRight", "ArrowUp", "ArrowDown"}

\* pos.start = --pos.end; restore(pos), for the position m.ret that save() returned.
restoreBeforeEnd(m) ==
  call("restore", m, Pos(m.ret.end - 1, m.ret.end - 1, m.ret.dir))

legacyNewLineFix(m, ev) ==
  IF m.isLegacy /\ ev.key = "Enter"
  THEN IF afterCursor(m) = <<>>
       THEN restoreBeforeEnd(call("save", call("insert", preventDefault(m), <<"\n", " ">>), Nil))
       ELSE call("insert", preventDefault(m), <<"\n">>)
  ELSE m

\* Mutation of moveAdjacent: the caret is not put back.
moveAdjacentNoRestore(m, padding) == call("insert", m, <<"\n">> \o padding)

\* Place adjacent "}" on next line: const pos = save() has run, pos is m.ret.
moveAdjacent(m, padding) ==
  call("restore", call("insert", m, <<"\n">> \o padding), m.ret)

newLineWith(m, ev, after, padding, newLinePadding) ==
  LET m1 == IF Len(newLinePadding) > 0
            THEN call("insert", preventDefault(m), <<"\n">> \o newLinePadding)
            ELSE call("legacyNewLineFix", m, ev)
  IN IF newLinePadding # padding /\ moveToNewLine(after)
     THEN moveAdjacent(call("save", m1, Nil), padding)
     ELSE m1

handleNewLine(m, ev) ==
  IF ev.key = "Enter"
  THEN newLineWith(m, ev, afterCursor(m), findPadding(beforeCursor(m))[1],
                   findPadding(beforeCursor(m))[1]
                     \o (IF indentOn(beforeCursor(m)) THEN m.options.tab ELSE <<>>))
  ELSE m

\* open, close and close[open.indexOf(key)]
openChars == <<"(", "[", "{", "'", "\"">>
closeOf(key) ==
  <<")", "]", "}", "'", "\"">>[CHOOSE i \in 1..Len(openChars) : openChars[i] = key]

\* Mutation of selfClose: the caret is not moved past the opening character.
selfCloseStay(m, ev) ==
  IF ~Ok(m) THEN m
  ELSE call("restore",
            call("insert", m,
                 <<ev.key>>
                   \o (IF m.ret.start = m.ret.end THEN <<>> ELSE getSelection_toString(m))
                   \o <<closeOf(ev.key)>>),
            Pos(m.ret.start, m.ret.end, m.ret.dir))

\* handleSelfClosingCharacters after const pos = save(): pos is m.ret.
selfClose(m, ev) ==
  IF ~Ok(m) THEN m
  ELSE call("restore",
            call("insert", m,
                 <<ev.key>>
                   \o (IF m.ret.start = m.ret.end THEN <<>> ELSE getSelection_toString(m))
                   \o <<closeOf(ev.key)>>),
            Pos(m.ret.start + 1, m.ret.end + 1, m.ret.dir))

handleSelfClosingCharacters(m, ev) ==
  IF \E i \in 1..Len(openChars) : openChars[i] = ev.key
  THEN selfClose(call("save", preventDefault(m), Nil), ev)
  ELSE m

\* Mutation of removeTab: the selection is not moved left.
removeTabStay(m, start, len) ==
  call("restore", call("insert", call("restore", m, Pos(start, start + len, "")), <<>>),
       Pos(m.ret.start, m.ret.end, m.ret.dir))

\* Shift+Tab after const pos = save(): pos is m.ret; start is where the
\* padding of the line starts, len what is removed of it.
removeTab(m, start, len) ==
  call("restore",
       call("insert", call("restore", m, Pos(start, start + len, "")), <<>>),
       Pos(m.ret.start - len, m.ret.end - len, m.ret.dir))

\* Mutation of shiftTab: one character of the padding is removed.
shiftTabOne(m, fp) ==
  IF Len(fp[1]) > 0 THEN removeTab(call("save", m, Nil), fp[2], 1) ELSE m

shiftTab(m, fp) ==
  IF Len(fp[1]) > 0
  THEN removeTab(call("save", m, Nil), fp[2], Min(Len(m.options.tab), Len(fp[1])))
  ELSE m

handleTabCharacters(m, ev) ==
  IF ev.key = "Tab"
  THEN IF ev.shift
       THEN shiftTab(preventDefault(m), findPadding(beforeCursor(m)))
       ELSE call("insert", preventDefault(m), m.options.tab)
  ELSE m

\* ---------------------------------------------------------------- history
\* history[i] for a JavaScript index i.
histGet(h, i) == IF i >= 0 /\ i < Len(h) THEN h[i + 1] ELSE Hole

\* history[i] = rec, i >= 0: writing past the end leaves holes.
histSet(h, i, rec) ==
  IF i < Len(h) THEN [h EXCEPT ![i + 1] = rec]
  ELSE h \o [j \in 1..(i - Len(h)) |-> Hole] \o <<rec>>

\* restore(record.pos) has run and left its argument as m.ret: restore
\* assigns to the record's own position object.
keepPos(m, record) ==
  [m EXCEPT !.history = histSet(m.history, m.at, [record EXCEPT !.pos = m.ret])]

\* if (record) { editor.innerHTML = record.html; restore(record.pos) }
putBack(m, record) ==
  IF record # Hole
  THEN keepPos(call("restore", setInnerHTML(m, record.html), record.pos), record)
  ELSE m

\* if (at < 0) at = 0 (undo), if (at >= history.length) at-- (redo); not
\* reached when restore threw.
clamp(m, d) ==
  IF ~Ok(m) THEN m
  ELSE IF d < 0 THEN (IF m.at < 0 THEN [m EXCEPT !.at = 0] ELSE m)
  ELSE (IF m.at >= Len(m.history) THEN [m EXCEPT !.at = m.at - 1] ELSE m)

\* One branch of handleUndoRedo: at += d (d = -1 undo, d = 1 redo), then the
\* record there, when there is one, is put back.
undoRedoBranch(m, d) ==
  clamp(putBack([preventDefault(m) EXCEPT !.at = m.at + d],
                histGet(m.history, m.at + d)), d)

\* An event is an undo or a redo or neither (event.shiftKey tells them apart).
handleUndoRedo(m, ev) ==
  IF isUndo(ev) THEN undoRedoBranch(m, 0 - 1)
  ELSE IF isRedo(ev) THEN undoRedoBranch(m, 1)
  ELSE m

\* Mutation of sameRecord: every state is taken for a new one.
neverSame(lastRecord, html, pos) == FALSE

\* The test of recordHistory: the state is the one of the last record.
sameRecord(lastRecord, html, pos) ==
  /\ lastRecord # Hole
  /\ lastRecord.html = html
  /\ lastRecord.pos.start = pos.start
  /\ lastRecord.pos.end = pos.end

\* at++; history[at] = {html, pos}; history.splice(at + 1); and the eviction.
pushRecord(m, h1) ==
  IF m.at + 1 > maxHistory
  THEN [m EXCEPT !.at = maxHistory, !.history = Tail(h1)]
  ELSE [m EXCEPT !.at = m.at + 1, !.history = h1]

\* Mutation of recordSaved: the records after the pointer are kept.
recordSavedKeep(m, html) ==
  IF ~Ok(m) \/ sameRecord(histGet(m.history, m.at), html, m.ret) THEN m
  ELSE pushRecord(m, histSet(m.history, m.at + 1, [html |-> html, pos |-> m.ret]))

\* recordHistory after const pos = save(): pos is m.ret; html was read before.
recordSaved(m, html) ==
  IF ~Ok(m) \/ sameRecord(histGet(m.history, m.at), html, m.ret) THEN m
  ELSE pushRecord(m,
                  SubSeq(histSet(m.history, m.at + 1, [html |-> html, pos |-> m.ret]),
                         1, m.at + 2))

\* recordHistory past its focus guard.
recordState(m) == recordSaved(call("save", m, Nil), innerHTML(m.tree))

\* Mutation of recordHistory: the focus guard is left out.
recordHistoryUnfocused(m) == recordState(m)

recordHistory(m) == IF ~m.focus THEN m ELSE recordState(m)

\* ---------------------------------------------------------- clipboard
\* restore({start: p, end: p, dir: '<-'}) for p = Math.min(pos.start, pos.end) + n
restoreAfter(m, pos, n) ==
  call("restore", m, Pos(Min(pos.start, pos.end) + n, Min(pos.start, pos.end) + n, "<-"))

\* text.replace(/\r\n?/g, '\n')
RECURSIVE replaceCR(_)
replaceCR(text) ==
  IF text = <<>> THEN <<>>
  ELSE IF text[1] # "\r" THEN <<text[1]>> \o replaceCR(Tail(text))
  ELSE IF Len(text) >= 2 /\ text[2] = "\n" THEN <<"\n">> \o replaceCR(Tail(Tail(text)))
  ELSE <<"\n">> \o replaceCR(Tail(text))

\* Mutation of getData: the text of an absent clipboardData is "undefined".
getDataUnchecked(clipboardData) == replaceCR(clipboardData)

\* event.clipboardData?.getData('text/plain').replace(/\r\n?/g, '\n') ?? ''
\* (clipboardData: Undefined when the event has none, else its text/plain
\* payload, which getData gives as '' when there is no such payload)
getData(clipboardData) ==
  IF clipboardData = Undefined THEN <<>> ELSE replaceCR(clipboardData)

\* handlePaste after const pos = save(): pos is m.ret.
pasteSaved(m, text) ==
  restoreAfter(call("highlight", call("insert", m, text), Nil), m.ret, Len(text))

handlePaste(m, data) == pasteSaved(call("save", preventDefault(m), Nil), getData(data))

\* handleCut after const pos = save(): pos is m.ret.
cutSaved(m) ==
  call("preventDefault",
       restoreAfter(call("highlight",
                         call("insert", [m EXCEPT !.clip = getSelection_toString(m)], <<>>),
                         Nil),
                    m.ret, 0),
       Nil)

handleCut(m) == cutSaved(call("save", m, Nil))

\* ------------------------------------------- the browser's default actions
\* The children with the text offsets lo..hi removed and ins put in at lo, in
\* the text nodes they are in (c: text offset of the first child;
\* done: ins is already placed): [kids, c, done].
RECURSIVE editKids(_, _, _, _, _, _)
editKids(ks, c, lo, hi, ins, done) ==
  IF ks = <<>> THEN [kids |-> <<>>, c |-> c, done |-> done]
  ELSE LET n == ks[1]
           len == Len(n.data)
           here == ~done /\ c <= lo /\ lo <= c + len
           data == slice(n.data, 0, Max(0, lo - c))
                   \o (IF here THEN ins ELSE <<>>)
                   \o slice(n.data, Max(0, hi - c), len)
           sub == editKids(n.kids, c, lo, hi, ins, done)
           rest == IF IsText(n)
                   THEN editKids(Tail(ks), c + len, lo, hi, ins, done \/ here)
                   ELSE editKids(Tail(ks), sub.c, lo, hi, ins, sub.done)
       IN [kids |-> <<IF IsText(n) THEN TextNode(data) ELSE ElNode(n.ce, sub.kids)>> \o rest.kids,
           c |-> rest.c, done |-> rest.done]

\* The boundary point a caret at text offset off is given: in the first text
\* node that reaches the offset, else at the end of the editor.
RECURSIVE caretScan(_, _, _, _, _)
caretScan(ks, order, i, current, off) ==
  IF i > Len(order) THEN BP(<<>>, Len(ks))
  ELSE LET n == NodeAt(ks, order[i])
       IN IF IsText(n) /\ current + Len(n.data) >= off
          THEN BP(order[i], off - current)
          ELSE caretScan(ks, order, i + 1,
                         IF IsText(n) THEN current + Len(n.data) ELSE current, off)

caretAt(ks, off) == caretScan(ks, visit(ks), 1, 0, off)

\* The selection collapsed to the boundary point bp.
Caret(bp) == [a |-> bp, f |-> bp]

\* The editor has the children ks and the caret is at text offset off.
placeCaret(m, ks, off) == [m EXCEPT !.tree = ks, !.sel = Caret(caretAt(ks, off))]

\* The user agent replaces the selected text by ins (typing).
replaceSelection(m, ins) ==
  placeCaret(m,
             IF editKids(m.tree, 0, getRange(m)[1], getRange(m)[2], ins, FALSE).done
             THEN editKids(m.tree, 0, getRange(m)[1], getRange(m)[2], ins, FALSE).kids
             ELSE editKids(m.tree, 0, getRange(m)[1], getRange(m)[2], ins, FALSE).kids
                    \o textNodes(ins),
             getRange(m)[1] + Len(ins))

\* ArrowLeft: a caret moves one character back, a range collapses to its start.
moveLeft(m, lo, hi) ==
  [m EXCEPT !.sel = Caret(caretAt(m.tree, IF lo = hi THEN Max(0, lo - 1) ELSE lo))]

Printable == {"a", "b", " ", "(", ")", "{", "}", "[", "]", "'", "\"", "\\"}

\* What the user agent does for a keydown that no handler prevented.
defaultAction(m, ev) ==
  IF m.prevented \/ m.sel = NoSel THEN m
  ELSE IF ev.key \in Printable /\ ~ev.ctrl THEN replaceSelection(m, <<ev.key>>)
  ELSE IF ev.key = "Enter" THEN replaceSelection(m, <<"\n">>)
  ELSE IF ev.key = "ArrowLeft" THEN moveLeft(m, getRange(m)[1], getRange(m)[2])
  ELSE m

\* -------------------------------------------------------------- debounce
\* timers (followed when timers.on): table, the window's active timers, each
\* [id, cb, args, left] with left the milliseconds until it is due; next, the
\* id of the next timer; timeout[d], let timeout of the debouncer d; and, to
\* state what ran: last[d], the arguments of the last call of d, the time
\* since it (up to the wait), the callbacks run since it and the calls since
\* the callback ran before it; fired, the last callback run, with last[d] as
\* it was then.
Debouncers == {"debounceHighlight", "debounceRecordHistory"}

\* debounce(..., 30) and debounce(..., 300)
Wait(d) == IF d = "debounceHighlight" THEN 30 ELSE 300

NoCall == [args |-> NoEvent, ago |-> 0, runs |-> 0, calls |-> 0]
NoRun ==
  [cb |-> "", args |-> NoEvent, wanted |-> NoEvent, ago |-> 0, runs |-> 0, calls |-> 0]
TimersOff ==
  [on |-> FALSE, table |-> {}, next |-> 1, timeout |-> [d \in Debouncers |-> 0],
   last |-> [d \in Debouncers |-> NoCall], fired |-> NoRun]
TimersOn == [TimersOff EXCEPT !.on = TRUE]

\* clearTimeout(id): no timer has the id 0, and none gets the id of another.
clearTimeout(t, id) == [t EXCEPT !.table = {x \in @ : x.id # id}]

\* timeout = setTimeout(() => cb(...args), wait), in the debouncer d
setTimeout(t, d, args) ==
  [t EXCEPT !.table = @ \cup {[id |-> t.next, cb |-> d, args |-> args, left |-> Wait(d)]},
            !.next = @ + 1, !.timeout[d] = t.next]

\* Mutation of debounce: the pending call is not cancelled.
debounceKeep(t, d, args) == setTimeout(t, d, args)

\* The function debounce returns, called with args.
debounce(t, d, args) == setTimeout(clearTimeout(t, t.timeout[d]), d, args)

\* A call of the debouncer d.
invoke(m, d, args) ==
  IF ~m.timers.on THEN m
  ELSE [m EXCEPT !.timers = [debounce(@, d, args) EXCEPT
                               !.last[d] = [args |-> args, ago |-> 0, runs |-> 0,
                                            calls |-> IF @.runs = 0 THEN @.calls + 1
                                                      ELSE 1]]]

debounceHighlight(m) == [invoke(m, "debounceHighlight", NoEvent) EXCEPT !.hlTimer = TRUE]

debounceRecordHistory(m, ev) ==
  [invoke(m, "debounceRecordHistory", ev) EXCEPT !.recTimer = ev]

\* The timers of d that are due.
Due(t, d) == {x \in t.table : x.cb = d /\ x.left = 0}

\* The oldest due timer of d runs its callback and leaves the table.
expire(t, d) ==
  IF ~t.on THEN t
  ELSE LET x == CHOOSE x \in Due(t, d) : \A y \in Due(t, d) : x.id <= y.id
       IN [t EXCEPT !.table = @ \ {x}, !.last[d].runs = @ + 1,
                    !.fired = [cb |-> d, args |-> x.args, wanted |-> t.last[d].args,
                               ago |-> t.last[d].ago, runs |-> t.last[d].runs,
                               calls |-> t.last[d].calls]]

\* ms milliseconds pass.
elapse(t, ms) ==
  [t EXCEPT !.table = {[x EXCEPT !.left = Max(0, @ - ms)] : x \in @},
            !.last = [d \in Debouncers |->
                        [t.last[d] EXCEPT !.ago = Min(Wait(d), @ + ms)]]]

\* ------------------------------------------------------------- listeners
\* Mutation of recordOnce: the latch is not consulted.
recordAlways(m) ==
  [call("recordHistory", m, Nil) EXCEPT
     !.recording = @ \/ call("recordHistory", m, Nil).thrown = ""]

\* if (... && !recording) { recordHistory(); recording = true }
recordOnce(m) ==
  IF m.recording THEN m
  ELSE [call("recordHistory", m, Nil) EXCEPT
          !.recording = @ \/ call("recordHistory", m, Nil).thrown = ""]

\* The key handler f of the keydown listener runs; it is noted in edits when
\* it changed the content or the selection.
handler(f, m, ev) ==
  IF call(f, m, ev).tree # m.tree \/ call(f, m, ev).sel # m.sel
  THEN [call(f, m, ev) EXCEPT !.edits = @ \cup {f}]
  ELSE call(f, m, ev)

keydown(m, ev) ==
  LET m0 == [m EXCEPT !.prev = toString(m)]
      m1 == handler(IF m.options.preserveIdent THEN "handleNewLine" ELSE "legacyNewLineFix",
                    m0, ev)
      m2 == handler(IF m.options.catchTab THEN "handleTabCharacters" ELSE "skip", m1, ev)
      m3 == handler(IF m.options.addClosing THEN "handleSelfClosingCharacters" ELSE "skip",
                    m2, ev)
      m4 == handler(IF m.options.history THEN "handleUndoRedo" ELSE "skip", m3, ev)
      m5 == call(IF m.options.history /\ shouldRecord(ev) THEN "recordOnce" ELSE "skip",
                 m4, Nil)
  IN call(IF m.isLegacy /\ ~isCopy(ev) THEN "restoreSave" ELSE "skip", m5, Nil)

keyup(m, ev) ==
  IF ev.isComposing THEN m
  ELSE call("onUpdateText",
            debounceRecordHistory(IF m.prev # toString(m) THEN debounceHighlight(m)
                                  ELSE m, ev),
            Nil)

\* Mutation of the paste listener: the state before the paste is not recorded.
pasteUnrecorded(m, data) ==
  call("onUpdateText", call("recordHistory", call("handlePaste", m, data), Nil), Nil)

paste(m, data) ==
  call("onUpdateText",
       call("recordHistory", call("handlePaste", call("recordHistory", m, Nil), data), Nil),
       Nil)

cut(m) ==
  call("onUpdateText",
       call("recordHistory", call("handleCut", call("recordHistory", m, Nil), Nil), Nil),
       Nil)

\* The callback of debounceHighlight, after const pos = save(): pos is m.ret.
highlightSaved(m) == call("restore", call("highlight", m, Nil), m.ret)

highlightCallback(m) == highlightSaved(call("save", m, Nil))

\* recordHistory(); recording = false
recordDone(m) == IF Ok(m) THEN [m EXCEPT !.recording = FALSE] ELSE m

\* The callback of debounceRecordHistory, for the event of the last call.
recordCallback(m, ev) ==
  IF shouldRecord(ev) THEN recordDone(call("recordHistory", m, Nil)) ELSE m

\* Mutation of updateCode: the states before and after are recorded.
updateCodeRecorded(m, code, notify) ==
  call(IF notify THEN "onUpdate" ELSE "skip",
       call("recordHistory",
            call("highlight", setTextContent(call("recordHistory", m, Nil), code), Nil),
            Nil), code)

updateCode(m, code, notify) ==
  call(IF notify THEN "onUpdate" ELSE "skip",
       call("highlight", setTextContent(m, code), Nil), code)

\* Mutation of updateOptions: the options are replaced, not merged.
updateOptionsReplace(m, newOptions) ==
  [m EXCEPT !.options = [k \in DOMAIN m.options |->
                           IF k \in DOMAIN newOptions THEN newOptions[k]
                           ELSE DefaultOptions[k]]]

\* updateOptions(newOptions): Object.assign(options, newOptions)
updateOptions(m, newOptions) ==
  [m EXCEPT !.options = [k \in DOMAIN m.options |->
                           IF k \in DOMAIN newOptions THEN newOptions[k]
                           ELSE m.options[k]]]

\* Mutation of setOnUpdate: the first callback registered stays.
setOnUpdateOnce(m, callback) ==
  [m EXCEPT !.onUpdate = IF @ = "onUpdate" THEN callback ELSE @]

\* onUpdate(callback): onUpdate = callback
setOnUpdate(m, callback) == [m EXCEPT !.onUpdate = callback]

\* Mutation of destroy: the listeners stay.
destroyNothing(m) == m

\* destroy(): the listeners are removed from the editor.
destroy(m) == [m EXCEPT !.listening = FALSE]

\* --------------------------------------------------------------- calls
call(f, m, x) ==
  IF ~Ok(m) THEN m
  ELSE CASE f = "save" -> doSave(m)
         [] f = "restore" -> Apply(m, restore(m.tree, m.sel, x))
         [] f = "restoreSave" -> call("restore", doSave(m), doSave(m).ret)
         [] f = "insert" -> insert(m, x)
         [] f = "highlight" -> highlight(m)
         [] f = "preventDefault" -> preventDefault(m)
         [] f = "recordHistory" -> recordHistory(m)
         [] f = "recordOnce" -> recordOnce(m)
         [] f = "handleNewLine" -> handleNewLine(m, x)
         [] f = "legacyNewLineFix" -> legacyNewLineFix(m, x)
         [] f = "handleTabCharacters" -> handleTabCharacters(m, x)
         [] f = "handleSelfClosingCharacters" -> handleSelfClosingCharacters(m, x)
         [] f = "handleUndoRedo" -> handleUndoRedo(m, x)
         [] f = "handlePaste" -> handlePaste(m, x)
         [] f = "handleCut" -> handleCut(m)
         [] f = "keydown" -> keydown(m, x)
         [] f = "keyup" -> keyup(m, x)
         [] f = "paste" -> paste(m, x)
         [] f = "cut" -> cut(m)
         [] f = "highlightCallback" -> highlightCallback(m)
         [] f = "recordCallback" -> recordCallback(m, x)
         [] f = "updateCode" -> updateCode(m, x.code, x.notify)
         [] f = "destroy" -> destroy(m)
         [] f = "onUpdate" -> callOnUpdate(m, x)
         [] f = "onUpdateText" -> callOnUpdate(m, toString(m))
         [] OTHER -> m

\* ---------------------------------------------------------------- inputs
KeyEvents ==
  {Ev("a", FALSE, FALSE), Ev("(", FALSE, FALSE),
   Ev("z", TRUE, FALSE), Ev("Z", TRUE, TRUE), Ev("ArrowLeft", FALSE, FALSE)}
\* keyup events: one that is recorded and one that is not.
KeyUpEvents == {Ev("a", FALSE, FALSE), Ev("z", TRUE, FALSE)}
PasteData == {<<"a">>}
Codes == {<<"a">>, <<"(", ")">>}
Highlighters == {"token"}
LegacyModes == {FALSE}
\* The keys of the runs that call the editor's methods.
ApiKeyEvents == {Ev("a", FALSE, FALSE), Ev("z", TRUE, FALSE)}

\* ------------------------------------------------- the run so far (history
\* variables of the verification: the program does not read them)
\* law: the inputs so far were, on the focused editor, law.edits keydowns that
\* changed the text, then law.undos undo keys, then law.redos redo keys, with
\* only keyups and timers in between; law.final is the text before the first
\* undo. edits = -1: the run is not of this shape.
LawOff == [edits |-> 0 - 1, undos |-> 0, redos |-> 0, final |-> <<>>]

LawKey(m, ev) ==
  IF law.edits < 0 \/ ~Ok(m) \/ ~focus \/ ~listening THEN LawOff
  ELSE IF isUndo(ev)
  THEN (IF law.undos < law.edits /\ law.redos = 0
        THEN [law EXCEPT !.undos = @ + 1,
                         !.final = IF law.undos = 0 THEN textContent(tree) ELSE @]
        ELSE LawOff)
  ELSE IF isRedo(ev)
  THEN (IF law.edits >= 1 /\ law.undos = law.edits /\ law.redos < law.edits
        THEN [law EXCEPT !.redos = @ + 1]
        ELSE LawOff)
  ELSE IF law.undos = 0 /\ textContent(m.tree) # textContent(tree)
  THEN [law EXCEPT !.edits = @ + 1]
  ELSE LawOff

\* pasted.before: the text before the paste of a non-empty text into the
\* focused editor, when no input but timers came since (else Undefined);
\* pasted.undone: the one input since was the undo key.
NoPaste == [before |-> Undefined, undone |-> FALSE]

PastedKey(ev) ==
  IF isUndo(ev) /\ listening /\ pasted.before # Undefined /\ ~pasted.undone
  THEN [pasted EXCEPT !.undone = TRUE]
  ELSE NoPaste

\* held (followed when held.on): down, the keys that went down and have not
\* come up; dirty, a keydown changed the text and the highlighter has not run
\* since; shots, the snapshots that keydowns took since the last callback of
\* debounceRecordHistory that recorded.
HeldOff == [on |-> FALSE, down |-> {}, dirty |-> FALSE, shots |-> 0]
HeldOn == [HeldOff EXCEPT !.on = TRUE]

HeldNext(m, op) ==
  IF ~held.on THEN held
  ELSE [on |-> TRUE,
        down |-> IF op \in {"keydown", "undo", "redo"} THEN held.down \cup {m.key.key}
                 ELSE IF op = "keyup" THEN held.down \ {m.key.key}
                 ELSE held.down,
        dirty |-> IF "highlight" \in m.calls THEN FALSE
                  ELSE held.dirty \/ (op = "keydown" /\ textContent(m.tree) # textContent(tree)),
        shots |-> IF op = "recordTimer" /\ ~m.recording THEN 0
                  ELSE IF op = "keydown" /\ (m.history # history \/ m.at # at)
                  THEN held.shots + 1
                  ELSE held.shots]

\* ---------------------------------------------------------------- actions
\* The operation named op ends in m; the text grows to cap characters at most.
CommitTo(m, op, n, lw, pd, cap) ==
  /\ Len(textContent(m.tree)) <= Max(cap, Len(textContent(tree)))
  /\ tree' = m.tree /\ sel' = m.sel /\ history' = m.history /\ at' = m.at
  /\ focus' = m.focus /\ recording' = m.recording /\ prev' = m.prev
  /\ hlTimer' = m.hlTimer /\ recTimer' = m.recTimer /\ listening' = m.listening
  /\ options' = m.options /\ isLegacy' = m.isLegacy /\ onUpdate' = m.onUpdate
  /\ hl' = m.hl
  /\ out' = [op |-> op, thrown |-> m.thrown, calls |-> m.calls,
             prevented |-> m.prevented,
             ret |-> IF op \in {"save", "restore"} /\ Ok(m) THEN m.ret ELSE NoPos,
             again |-> (op = out.op), key |-> m.key, clip |-> m.clip, arg |-> m.arg,
             input |-> m.input, edits |-> m.edits]
  /\ steps' = steps + n
  /\ law' = lw /\ pasted' = pd /\ held' = HeldNext(m, op)
  /\ timers' = m.timers

Commit(m, op, n, lw, pd) == CommitTo(m, op, n, lw, pd, MaxLen)

\* A keydown: the listener, when it is attached, then the user agent's
\* default action. (The user agent's own undo stack is not modelled: without
\* the listener only plain keys are typed.)
KeyDone(m, ev, cap) ==
  CommitTo(m, IF isUndo(ev) THEN "undo" ELSE IF isRedo(ev) THEN "redo" ELSE "keydown", 1,
           LawKey(m, ev), PastedKey(ev), cap)

KeyDownTo(ev, cap) ==
  /\ steps < MaxSteps /\ sel # NoSel
  /\ listening \/ ~ev.ctrl
  /\ KeyDone(defaultAction(call(IF listening THEN "keydown" ELSE "skip",
                                [Cur EXCEPT !.key = ev], ev), ev), ev, cap)

KeyDown(ev) == KeyDownTo(ev, MaxLen)

\* A keydown in a run of the typing claims.
KeyPress(ev) == KeyDownTo(ev, MaxText)

KeyUp(ev) ==
  /\ steps < MaxSteps /\ sel # NoSel
  /\ Commit(call(IF listening THEN "keyup" ELSE "skip", [Cur EXCEPT !.key = ev], ev),
            "keyup", 1, law, NoPaste)

\* The editor gets the focus; the user agent puts the caret in it.
FocusEvent ==
  /\ steps < MaxSteps /\ ~focus
  /\ Commit([Cur EXCEPT !.focus = listening,
                        !.sel = IF sel = NoSel THEN Caret(caretAt(tree, 0)) ELSE sel],
            "focus", 1, law, NoPaste)

BlurEvent ==
  /\ steps < MaxSteps /\ focus
  /\ Commit([Cur EXCEPT !.focus = IF listening THEN FALSE ELSE @], "blur", 1,
            LawOff, NoPaste)

\* What the user agent does for a paste or a cut that no handler prevented.
clipboardAction(m, data) ==
  IF m.prevented THEN m
  ELSE replaceSelection(m, IF data = Undefined THEN <<>> ELSE data)

PasteDone(m, data) ==
  Commit(m, "paste", 1, LawOff,
         IF listening /\ focus /\ getData(data) # <<>> /\ Ok(m)
         THEN [before |-> textContent(tree), undone |-> FALSE] ELSE NoPaste)

Paste(data) ==
  /\ steps < MaxSteps /\ sel # NoSel
  /\ PasteDone(clipboardAction(call(IF listening THEN "paste" ELSE "skip",
                                    [Cur EXCEPT !.input = data], data), data),
               data)

Cut ==
  /\ steps < MaxSteps /\ sel # NoSel
  /\ Commit(clipboardAction(call(IF listening THEN "cut" ELSE "skip", Cur, Nil), <<>>),
            "cut", 1, LawOff, NoPaste)

\* The selection from text offset a to text offset f.
Range(ks, a, f) == [a |-> caretAt(ks, a), f |-> caretAt(ks, f)]

\* The user sets the selection with the pointer: anchor a, focus f.
Select(a, f) ==
  /\ steps < MaxSteps /\ sel # NoSel
  /\ sel # Range(tree, a, f)
  /\ Commit([Cur EXCEPT !.sel = Range(tree, a, f)],
            "select", 1, LawOff, NoPaste)

\* The timer of debounceHighlight fires.
HighlightTimer ==
  /\ hlTimer /\ hl # "pick"
  /\ timers.on => Due(timers, "debounceHighlight") # {}
  /\ Commit(call("highlightCallback",
                 [Cur EXCEPT !.hlTimer = FALSE,
                             !.timers = expire(timers, "debounceHighlight")], Nil),
            "highlightTimer", 0, law, pasted)

\* The timer of debounceHighlight fires, and the host renders the text as t.
HighlightPick(t) ==
  /\ hlTimer /\ hl = "pick" /\ steps < MaxSteps
  /\ textContent(t) = textContent(tree)
  /\ Commit(call("highlightCallback", [Cur EXCEPT !.hlTimer = FALSE, !.pick = t], Nil),
            "highlightTimer", 1, LawOff, NoPaste)

\* The timer of debounceRecordHistory fires. It was set at the last keyup, so
\* after the timer of debounceHighlight (30 ms against 300 ms).
RecordTimer ==
  /\ recTimer # NoEvent /\ ~hlTimer
  /\ timers.on => Due(timers, "debounceRecordHistory") # {}
  /\ Commit(call("recordCallback",
                 [Cur EXCEPT !.recTimer = NoEvent,
                             !.timers = expire(timers, "debounceRecordHistory")], recTimer),
            "recordTimer", 0, law, pasted)

\* Time passes while a timer waits.
Pass(ms) ==
  /\ timers.on /\ \E x \in timers.table : x.left > 0
  /\ timers' = elapse(timers, ms)
  /\ UNCHANGED <<tree, sel, history, at, focus, recording, prev, hlTimer, recTimer,
                 listening, options, isLegacy, onUpdate, hl, out, steps, law, pasted,
                 held>>

UpdateCode(code, notify) ==
  /\ steps < MaxSteps
  /\ Commit(call("updateCode", [Cur EXCEPT !.input = [code |-> code, notify |-> notify]],
                 [code |-> code, notify |-> notify]), "updateCode", 1,
            LawOff, NoPaste)

UpdateOptions(newOptions) ==
  /\ steps < MaxSteps
  /\ Commit(updateOptions([Cur EXCEPT !.input = newOptions], newOptions), "updateOptions", 1,
            LawOff, NoPaste)

OnUpdate(callback) ==
  /\ steps < MaxSteps
  /\ Commit(setOnUpdate([Cur EXCEPT !.input = callback], callback), "onUpdate", 1,
            LawOff, NoPaste)

RecordHistoryCall ==
  /\ steps < MaxSteps
  /\ Commit(call("recordHistory", Cur, Nil), "recordHistory", 1, LawOff, NoPaste)

SaveCall ==
  /\ steps < MaxSteps
  /\ Commit(call("save", Cur, Nil), "save", 1, LawOff, NoPaste)

\* The host calls restore(pos).
RestoreCall(pos) ==
  /\ steps < MaxSteps
  /\ Commit(call("restore", [Cur EXCEPT !.input = pos], pos), "restore", 1, LawOff, NoPaste)

Destroy ==
  /\ steps < MaxSteps
  /\ Commit(call("destroy", Cur, Nil), "destroy", 1, LawOff, NoPaste)

\* The state after CodeJar(editor, highlight): an empty editor.
Init ==
  /\ tree = <<>> /\ sel = NoSel
  /\ history = <<>> /\ at = 0 - 1 /\ focus = FALSE /\ recording = FALSE
  /\ prev = Undefined /\ hlTimer = FALSE /\ recTimer = NoEvent
  /\ listening = TRUE /\ options = DefaultOptions
  /\ isLegacy \in LegacyModes /\ onUpdate = "onUpdate" /\ hl \in Highlighters
  /\ out = [op |-> "construct", thrown |-> "", calls |-> {}, prevented |-> FALSE,
            ret |-> NoPos, again |-> FALSE, key |-> NoEvent, clip |-> Undefined,
            arg |-> Undefined, input |-> Undefined, edits |-> {}]
  /\ steps = 0 /\ law = [edits |-> 0, undos |-> 0, redos |-> 0, final |-> <<>>] /\ pasted = NoPaste
  /\ held = HeldOff /\ timers = TimersOff

\* The user at the editor.
Next ==
  \/ \E ev \in KeyEvents : KeyDown(ev)
  \/ \E ev \in KeyUpEvents : KeyUp(ev)
  \/ FocusEvent
  \/ BlurEvent
  \/ \E data \in PasteData : Paste(data)
  \/ Cut
  \/ \E a, f \in 0..MaxLen : a <= Len(textContent(tree)) /\ f <= Len(textContent(tree)) /\ Select(a, f)
  \/ HighlightTimer
  \/ RecordTimer
  \/ RecordHistoryCall

Spec == Init /\ [][Next]_vars

\* The host calling the editor's methods, with a user who types and undoes.
NextApi ==
  \/ \E ev \in ApiKeyEvents : KeyDown(ev)
  \/ \E ev \in {Ev("a", FALSE, FALSE)} : KeyUp(ev)
  \/ FocusEvent
  \/ \E data \in PasteData : Paste(data)
  \/ HighlightTimer
  \/ RecordTimer
  \/ \E code \in Codes, notify \in BOOLEAN : UpdateCode(code, notify)
  \/ RecordHistoryCall
  \/ SaveCall
  \/ Destroy

SpecApi == Init /\ [][NextApi]_vars

\* ------------------------------------------------------ the position codec
\* The trees a highlighter leaves in the editor, and the boundary points in
\* them.
CodecNodes ==
  {TextNode(<<"a">>), TextNode(<<"a", "b">>),
   ElNode(TRUE, <<TextNode(<<"a">>)>>), ElNode(TRUE, <<TextNode(<<"b">>)>>),
   ElNode(TRUE, <<TextNode(<<"a">>), ElNode(TRUE, <<TextNode(<<"b">>)>>)>>),
   ElNode(TRUE, <<>>)}

CodecTrees ==
  {ks \in UNION {[1..n -> CodecNodes] : n \in 0..2} :
     Len(textContent(ks)) <= MaxLen /\ normalize(ks) = ks}

BPs(ks) ==
  UNION {{BP(p, o) : o \in 0..NodeLength(ks, p)} :
           p \in {<<>>} \cup {visit(ks)[i] : i \in 1..Len(visit(ks))}}
Sels(ks) == {[a |-> x, f |-> y] : x \in BPs(ks), y \in BPs(ks)} \cup {NoSel}

\* An editor with highlighted content, a selection anywhere in it, and a
\* call of the debounced highlight pending.
InitCodec ==
  /\ tree \in CodecTrees /\ sel \in Sels(tree)
  /\ history = <<>> /\ at = 0 - 1 /\ focus = TRUE /\ recording = FALSE
  /\ prev = Undefined /\ hlTimer = TRUE /\ recTimer = NoEvent
  /\ listening = TRUE /\ options = DefaultOptions
  /\ isLegacy = FALSE /\ onUpdate = "onUpdate" /\ hl = "pick"
  /\ out = [op |-> "construct", thrown |-> "", calls |-> {}, prevented |-> FALSE,
            ret |-> NoPos, again |-> FALSE, key |-> NoEvent, clip |-> Undefined,
            arg |-> Undefined, input |-> Undefined, edits |-> {}]
  /\ steps = 0 /\ law = LawOff /\ pasted = NoPaste
  /\ held = HeldOff /\ timers = TimersOff

NextCodec ==
  \/ \E t \in CodecTrees : HighlightPick(t)
  \/ SaveCall

SpecCodec == InitCodec /\ [][NextCodec]_vars

\* save() and recordHistory() on a focused editor with highlighted content
\* and a selection anywhere in it.
OrderSteps == 2

InitOrder ==
  /\ tree \in CodecTrees /\ sel \in Sels(tree) \ {NoSel}
  /\ history = <<>> /\ at = 0 - 1 /\ focus = TRUE /\ recording = FALSE
  /\ prev = Undefined /\ hlTimer = FALSE /\ recTimer = NoEvent
  /\ listening = TRUE /\ options = DefaultOptions
  /\ isLegacy = FALSE /\ onUpdate = "onUpdate" /\ hl = "token"
  /\ out = [op |-> "select", thrown |-> "", calls |-> {}, prevented |-> FALSE,
            ret |-> NoPos, again |-> FALSE, key |-> NoEvent, clip |-> Undefined,
            arg |-> Undefined, input |-> Undefined, edits |-> {}]
  /\ steps = MaxSteps - OrderSteps /\ law = LawOff /\ pasted = NoPaste
  /\ held = HeldOff /\ timers = TimersOff

NextOrder ==
  \/ SaveCall
  \/ RecordHistoryCall

SpecOrder == InitOrder /\ [][NextOrder]_vars

\* ------------------------------------------------------------------ typing
\* The user types into an editor that holds code: the contents, the tab
\* strings and the keys of these runs.
KeyCodes ==
  {<<>>, <<"(", ")">>, <<"{", "}">>, <<" ", "{", "}">>, <<" ", "a">>, <<"a", "\n">>,
   <<"\\">>, <<"'">>}
KeyTabs == {<<"\t">>, <<" ", " ">>, <<"-">>}
EditKeys ==
  {Ev("(", FALSE, FALSE), Ev(")", FALSE, FALSE), Ev("'", FALSE, FALSE),
   Ev("Enter", FALSE, FALSE), Ev("Tab", FALSE, FALSE), Ev("Tab", FALSE, TRUE),
   Ev("z", TRUE, FALSE)}

\* A focused editor that holds code, as typed or as the highlighter left it,
\* with the selection anywhere in it.
InitKeys ==
  /\ \E code \in KeyCodes : tree \in {textNodes(code), tokenNodes(code)}
  /\ \E a, f \in 0..MaxText :
       /\ a <= Len(textContent(tree)) /\ f <= Len(textContent(tree))
       /\ sel = Range(tree, a, f)
  /\ history = <<>> /\ at = 0 - 1 /\ focus = TRUE /\ recording = FALSE
  /\ prev = Undefined /\ hlTimer = FALSE /\ recTimer = NoEvent
  /\ listening = TRUE
  /\ \E t \in KeyTabs : options = [DefaultOptions EXCEPT !.tab = t]
  /\ isLegacy = FALSE /\ onUpdate = "onUpdate" /\ hl = "token"
  /\ out = [op |-> "construct", thrown |-> "", calls |-> {}, prevented |-> FALSE,
            ret |-> NoPos, again |-> FALSE, key |-> NoEvent, clip |-> Undefined,
            arg |-> Undefined, input |-> Undefined, edits |-> {}]
  /\ steps = MaxSteps - KeySteps /\ law = LawOff /\ pasted = NoPaste
  /\ held = HeldOff /\ timers = TimersOff

NextKeys ==
  \/ \E ev \in EditKeys : KeyPress(ev)
  \/ \E ev \in {Ev("a", FALSE, FALSE)} : KeyUp(ev)
  \/ HighlightTimer

SpecKeys == InitKeys /\ [][NextKeys]_vars

\* ------------------------------------------------------ the clipboard
ClipSteps == 3
\* The clipboardData of a paste: none, no text/plain payload, texts.
ClipData == {Undefined, <<>>, <<"b">>, <<"\r", "\n">>, <<"\r">>}
ClipCodes == {<<"a">>, <<"a", "b">>, <<"a", "\n">>}

\* The focused editor with a selection made forwards or backwards.
InitClip ==
  /\ \E code \in ClipCodes : tree \in {textNodes(code), tokenNodes(code)}
  /\ \E a, f \in 0..MaxLen :
       /\ a <= Len(textContent(tree)) /\ f <= Len(textContent(tree))
       /\ sel = Range(tree, a, f)
  /\ history = <<>> /\ at = 0 - 1 /\ focus = TRUE /\ recording = FALSE
  /\ prev = Undefined /\ hlTimer = FALSE /\ recTimer = NoEvent
  /\ listening = TRUE /\ options = DefaultOptions
  /\ isLegacy = FALSE /\ onUpdate = "onUpdate" /\ hl = "token"
  /\ out = [op |-> "select", thrown |-> "", calls |-> {}, prevented |-> FALSE,
            ret |-> NoPos, again |-> FALSE, key |-> NoEvent, clip |-> Undefined,
            arg |-> Undefined, input |-> Undefined, edits |-> {}]
  /\ steps = MaxSteps - ClipSteps /\ law = LawOff /\ pasted = NoPaste
  /\ held = HeldOff /\ timers = TimersOff

NextClip ==
  \/ \E data \in ClipData : Paste(data)
  \/ Cut
  \/ \E a, f \in 0..MaxLen :
       a <= Len(textContent(tree)) /\ f <= Len(textContent(tree)) /\ Select(a, f)
  \/ \E ev \in {Ev("z", TRUE, FALSE), Ev("Z", TRUE, TRUE)} : KeyDown(ev)

SpecClip == InitClip /\ [][NextClip]_vars

\* -------------------------------------------------- insert on its own
InsertSteps == 2
InsertCodes == {<<>>, <<"a">>, <<"a", "b">>, <<"(", "a", ")">>}
InsertTexts == {<<>>, <<"b">>, <<"\n", " ">>}

\* A handler calls insert(text).
Insert(text) ==
  /\ steps < MaxSteps /\ sel # NoSel
  /\ CommitTo(call("insert", [Cur EXCEPT !.input = text], text), "insert", 1,
              LawOff, NoPaste, MaxText)

\* An editor that holds code, with a selection made forwards or backwards.
InitInsert ==
  /\ \E code \in InsertCodes : tree \in {textNodes(code), tokenNodes(code)}
  /\ \E a, f \in 0..MaxText :
       /\ a <= Len(textContent(tree)) /\ f <= Len(textContent(tree))
       /\ sel = Range(tree, a, f)
  /\ history = <<>> /\ at = 0 - 1 /\ focus = TRUE /\ recording = FALSE
  /\ prev = Undefined /\ hlTimer = FALSE /\ recTimer = NoEvent
  /\ listening = TRUE /\ options = DefaultOptions
  /\ isLegacy = FALSE /\ onUpdate = "onUpdate" /\ hl = "token"
  /\ out = [op |-> "select", thrown |-> "", calls |-> {}, prevented |-> FALSE,
            ret |-> NoPos, again |-> FALSE, key |-> NoEvent, clip |-> Undefined,
            arg |-> Undefined, input |-> Undefined, edits |-> {}]
  /\ steps = MaxSteps - InsertSteps /\ law = LawOff /\ pasted = NoPaste
  /\ held = HeldOff /\ timers = TimersOff

NextInsert == \E text \in InsertTexts : Insert(text)

SpecInsert == InitInsert /\ [][NextInsert]_vars

\* ------------------------------------------------- restore() and save()
RestoreSteps == 2

\* Text, a span, an empty span, and subtrees with contenteditable="false":
\* one with text, one nested in another.
RestoreNodes ==
  {TextNode(<<"a">>), ElNode(TRUE, <<TextNode(<<"b">>)>>), ElNode(TRUE, <<>>),
   ElNode(FALSE, <<TextNode(<<"b">>)>>),
   ElNode(FALSE, <<ElNode(FALSE, <<TextNode(<<"b">>)>>)>>)}

RestoreTrees ==
  {ks \in UNION {[1..n -> RestoreNodes] : n \in 0..2} :
     Len(textContent(ks)) <= MaxLen /\ normalize(ks) = ks}

\* The positions a host passes: offsets up to the longest text, with a
\* direction, or without one ({start, end: start + len}).
Positions ==
  {Pos(a, b, d) : a \in 0..MaxLen, b \in 0..MaxLen, d \in {"->", "<-"}}
    \cup {Pos(a, b, "") : a \in 0..1, b \in 1..MaxLen}

\* An editor with content and a caret anywhere in it, or no selection.
InitRestore ==
  /\ tree \in RestoreTrees /\ sel \in {s \in Sels(tree) : s = NoSel \/ s.a = s.f}
  /\ history = <<>> /\ at = 0 - 1 /\ focus = TRUE /\ recording = FALSE
  /\ prev = Undefined /\ hlTimer = FALSE /\ recTimer = NoEvent
  /\ listening = TRUE /\ options = DefaultOptions
  /\ isLegacy = FALSE /\ onUpdate = "onUpdate" /\ hl = "token"
  /\ out = [op |-> "construct", thrown |-> "", calls |-> {}, prevented |-> FALSE,
            ret |-> NoPos, again |-> FALSE, key |-> NoEvent, clip |-> Undefined,
            arg |-> Undefined, input |-> Undefined, edits |-> {}]
  /\ steps = MaxSteps - RestoreSteps /\ law = LawOff /\ pasted = NoPaste
  /\ held = HeldOff /\ timers = TimersOff

\* The host restores a position and saves the selection.
NextRestore ==
  \/ \E pos \in Positions : RestoreCall(pos)
  \/ SaveCall

SpecRestore == InitRestore /\ [][NextRestore]_vars

\* ------------------------------------------------- edits, undos and redos
UndoSteps == 5
UndoKeys == {Ev("a", FALSE, FALSE), Ev("z", TRUE, FALSE), Ev("Z", TRUE, TRUE)}

\* The focused empty editor.
InitUndo ==
  /\ tree = <<>> /\ sel = Caret(caretAt(tree, 0))
  /\ history = <<>> /\ at = 0 - 1 /\ focus = TRUE /\ recording = FALSE
  /\ prev = Undefined /\ hlTimer = FALSE /\ recTimer = NoEvent
  /\ listening = TRUE /\ options = DefaultOptions
  /\ isLegacy = FALSE /\ onUpdate = "onUpdate" /\ hl = "token"
  /\ out = [op |-> "focus", thrown |-> "", calls |-> {}, prevented |-> FALSE,
            ret |-> NoPos, again |-> FALSE, key |-> NoEvent, clip |-> Undefined,
            arg |-> Undefined, input |-> Undefined, edits |-> {}]
  /\ steps = MaxSteps - UndoSteps /\ law = LawOff /\ pasted = NoPaste
  /\ held = HeldOff /\ timers = TimersOff

\* The user types, pastes, undoes and redoes.
NextUndo ==
  \/ \E ev \in UndoKeys : KeyDown(ev)
  \/ \E ev \in {Ev("a", FALSE, FALSE)} : KeyUp(ev)
  \/ \E data \in PasteData : Paste(data)
  \/ HighlightTimer
  \/ RecordTimer

SpecUndo == InitUndo /\ [][NextUndo]_vars

\* ------------------------------------------------------ the debouncers
DebounceSteps == 4
\* A key that types and a key that does not change the text.
DebounceKeys == {Ev("a", FALSE, FALSE), Ev("ArrowLeft", FALSE, FALSE)}
\* Less than the wait of debounceHighlight, that wait, half the other wait.
Spans == {20, 30, 150}

\* The focused empty editor, no timer set.
InitDebounce ==
  /\ tree = <<>> /\ sel = Caret(caretAt(tree, 0))
  /\ history = <<>> /\ at = 0 - 1 /\ focus = TRUE /\ recording = FALSE
  /\ prev = Undefined /\ hlTimer = FALSE /\ recTimer = NoEvent
  /\ listening = TRUE /\ options = DefaultOptions
  /\ isLegacy = FALSE /\ onUpdate = "onUpdate" /\ hl = "token"
  /\ out = [op |-> "focus", thrown |-> "", calls |-> {}, prevented |-> FALSE,
            ret |-> NoPos, again |-> FALSE, key |-> NoEvent, clip |-> Undefined,
            arg |-> Undefined, input |-> Undefined, edits |-> {}]
  /\ steps = MaxSteps - DebounceSteps /\ law = LawOff /\ pasted = NoPaste
  /\ held = HeldOff /\ timers = TimersOn

\* Keys go down and come up, time passes, the timers that are due fire.
NextDebounce ==
  \/ \E ev \in DebounceKeys : KeyPress(ev)
  \/ \E ev \in DebounceKeys : KeyUp(ev)
  \/ \E ms \in Spans : Pass(ms)
  \/ HighlightTimer
  \/ RecordTimer

SpecDebounce == InitDebounce /\ [][NextDebounce]_vars

\* ------------------------------------------------------- the two timers
TimerSteps == 5
\* A key that types, a key that moves the caret, a modifier key.
TimerKeys == {Ev("a", FALSE, FALSE), Ev("ArrowLeft", FALSE, FALSE), Ev("Shift", FALSE, TRUE)}

\* The focused empty editor, no key down.
InitTimers ==
  /\ tree = <<>> /\ sel = Caret(caretAt(tree, 0))
  /\ history = <<>> /\ at = 0 - 1 /\ focus = TRUE /\ recording = FALSE
  /\ prev = Undefined /\ hlTimer = FALSE /\ recTimer = NoEvent
  /\ listening = TRUE /\ options = DefaultOptions
  /\ isLegacy = FALSE /\ onUpdate = "onUpdate" /\ hl = "token"
  /\ out = [op |-> "focus", thrown |-> "", calls |-> {}, prevented |-> FALSE,
            ret |-> NoPos, again |-> FALSE, key |-> NoEvent, clip |-> Undefined,
            arg |-> Undefined, input |-> Undefined, edits |-> {}]
  /\ steps = MaxSteps - TimerSteps /\ law = LawOff /\ pasted = NoPaste
  /\ held = HeldOn /\ timers = TimersOff

\* The user presses and releases keys (only a key that is down comes up);
\* the timers fire.
KeyTyped == \E ev \in TimerKeys : KeyPress(ev)
KeyReleased == \E ev \in TimerKeys : ev.key \in held.down /\ KeyUp(ev)

NextTimers ==
  \/ KeyTyped
  \/ KeyReleased
  \/ HighlightTimer
  \/ RecordTimer

\* A timer that is due fires (setTimeout runs its callback): the steps that
\* clear hlTimer and recTimer are those of HighlightTimer and RecordTimer.
HighlightDue == hlTimer /\ hlTimer' = FALSE
RecordDue == recTimer # NoEvent /\ ~hlTimer /\ recTimer' = NoEvent

SpecTimers ==
  InitTimers /\ [][NextTimers]_vars /\ WF_hlTimer(HighlightDue) /\ WF_recTimer(RecordDue)

\* ------------------------------------------------- the host's settings
HostSteps == 4
\* The options a host changes, and the callbacks it registers.
NewOptions ==
  {[history |-> FALSE], [catchTab |-> FALSE], [tab |-> <<" ", " ">>],
   [tab |-> <<"-">>, addClosing |-> FALSE]}
Callbacks == {"f", "g"}
HostKeys == {Ev("Tab", FALSE, FALSE), Ev("a", FALSE, FALSE), Ev("z", TRUE, FALSE)}
HostKeyUps == {Ev("a", FALSE, FALSE), Composing(Ev("a", FALSE, FALSE))}

\* The focused editor of a host: CodeJar(editor, highlight) on an element
\* that holds the code, then the focus.
InitHost ==
  /\ \E code \in {<<>>, <<"a">>} : tree = textNodes(code)
  /\ sel = Caret(caretAt(tree, 0))
  /\ history = <<>> /\ at = 0 - 1 /\ focus = TRUE /\ recording = FALSE
  /\ prev = Undefined /\ hlTimer = FALSE /\ recTimer = NoEvent
  /\ listening = TRUE /\ options = DefaultOptions
  /\ isLegacy = FALSE /\ onUpdate = "onUpdate" /\ hl = "token"
  /\ out = [op |-> "focus", thrown |-> "", calls |-> {}, prevented |-> FALSE,
            ret |-> NoPos, again |-> FALSE, key |-> NoEvent, clip |-> Undefined,
            arg |-> Undefined, input |-> Undefined, edits |-> {}]
  /\ steps = MaxSteps - HostSteps /\ law = LawOff /\ pasted = NoPaste
  /\ held = HeldOff /\ timers = TimersOff

NextHost ==
  \/ \E newOptions \in NewOptions : UpdateOptions(newOptions)
  \/ \E callback \in Callbacks : OnUpdate(callback)
  \/ \E ev \in HostKeys : KeyPress(ev)
  \/ \E ev \in HostKeyUps : KeyUp(ev)
  \/ \E data \in PasteData : Paste(data)
  \/ Cut
  \/ \E code \in {<<"a">>}, notify \in BOOLEAN : UpdateCode(code, notify)
  \/ HighlightTimer
  \/ RecordTimer

SpecHost == InitHost /\ [][NextHost]_vars

\* ------------------------------------------------------------ properties
\* The text and the absolute offsets of the selection's anchor and focus.
Text == textContent(tree)
SelOffsets == <<AbsOffset(tree, sel.a), AbsOffset(tree, sel.f)>>

\* C1 (undo/redo inverse law): after N edits made through the focused editor
\* from the empty editor, N undos bring the text back to the empty text, and
\* N redos after them bring back the text that was there before the first
\* undo, whenever the debounce timers fire.
C1_UndoRedoInverse ==
  /\ (law.edits >= 1 /\ law.undos = law.edits /\ law.redos = 0) => Text = <<>>
  /\ (law.edits >= 1 /\ law.redos = law.edits) => Text = law.final

\* C3 (bounded history): the history never holds more records (array slots
\* that are not holes) than its capacity, and after an undo the pointer is not before the oldest record.
C3_HistoryBounded ==
  /\ Cardinality({i \in 1..Len(history) : history[i] # Hole}) <= maxHistory
  /\ out.op = "undo" => at >= 0

\* C4 (paste is undoable on its own): when a non-empty text was pasted into
\* the focused editor and the next input is the undo key, the text is the
\* text before the paste, whichever timers fired in between.
C4_PasteUndone == pasted.undone => Text = pasted.before

C4_Witness ==
  /\ pasted.undone /\ out.op = "undo" /\ out.thrown = ""
  /\ Text = pasted.before /\ history # <<>>

\* C5 (recordHistory is idempotent): a call of recordHistory() on the focused
\* editor leaves the history and the pointer alone when the serialized
\* content and the selection's start and end are those of the record at the
\* pointer; otherwise it adds exactly one record, the current state, at the
\* pointer; and a second call right after the first adds nothing.
C5_RecordIdempotent ==
  [][(out'.op = "recordHistory" /\ focus /\ sel # NoSel) =>
       LET rec == histGet(history, at)
           pos == save(tree, sel).pos
           same == /\ rec # Hole /\ rec.html = innerHTML(tree)
                   /\ rec.pos.start = pos.start /\ rec.pos.end = pos.end
       IN /\ same => (history' = history /\ at' = at)
          /\ ~same => /\ at' = Min(at + 1, maxHistory)
                      /\ Len(history') = at' + 1
                      /\ histGet(history', at') = [html |-> innerHTML(tree), pos |-> pos]
          /\ out'.again => (history' = history /\ at' = at)]_vars

C5_Witness ==
  /\ out.op = "recordHistory" /\ out.again /\ out.thrown = ""
  /\ focus /\ Len(history) >= 2 /\ Text # <<>>

\* The undo and the redo key.
UndoKey == Ev("z", TRUE, FALSE)
RedoKey == Ev("Z", TRUE, TRUE)
\* Two runs of a handler end alike: the same history, pointer and text.
Alike(x, y) ==
  x.history = y.history /\ x.at = y.at /\ textContent(x.tree) = textContent(y.tree)

\* C8 (undo and redo past either end): an undo with the pointer at the oldest
\* record or with an empty history, and a redo with the pointer at the newest
\* record or with an empty history, leave the text and the caret as they
\* are and throw nothing, and a recordHistory(), an undo or a redo that
\* comes next does what it would have done without that key.
C8_PastEndNoOp ==
  [][((out'.op = "undo" /\ at <= 0) \/ (out'.op = "redo" /\ at >= Len(history) - 1)) =>
       /\ Text' = Text /\ SelOffsets' = SelOffsets /\ out'.thrown = ""
       /\ Alike(recordHistory(Cur), recordHistory(Cur'))
       /\ Alike(handleUndoRedo(Cur, UndoKey), handleUndoRedo(Cur', UndoKey))
       /\ Alike(handleUndoRedo(Cur, RedoKey), handleUndoRedo(Cur', RedoKey))]_vars

\* C10 (no recording while not focused): while the editor is not focused, the
\* calls of recordHistory() (the host's, the keydown listener's, the paste
\* and cut listeners', the debounce timer's) leave the history and the
\* pointer as they are.
C10_UnfocusedNoRecord ==
  [][(~focus /\ out'.op \in {"recordHistory", "keydown", "paste", "cut", "recordTimer"}) =>
       (history' = history /\ at' = at)]_vars

C10_Witness ==
  /\ ~focus /\ out.op = "paste" /\ out.thrown = ""
  /\ history # <<>> /\ histGet(history, at).html # innerHTML(tree)

\* The operations that are events at the editor.
EventOps == {"keydown", "undo", "redo", "keyup", "focus", "blur", "paste", "cut"}

\* C2 (selection round trip): when the debounced highlight runs (save, the
\* highlighter's rebuild of the children with the same text, restore), the
\* anchor and the focus are afterwards at the absolute text offsets they had
\* before, wherever they were: in a text node, on an element, on the editor.
C2_SelectionRoundTrip ==
  [][(out'.op = "highlightTimer" /\ sel # NoSel) =>
       (out'.thrown = "" /\ SelOffsets' = SelOffsets)]_vars

\* C6 as the code has it (destroy detaches the listeners): destroy() removes
\* the listeners and changes nothing else, a second destroy() changes
\* nothing; an event after it invokes no host callback, records nothing and
\* starts no timer; a debounce timer pending at destroy() still runs its
\* callback: the highlight timer invokes the host's highlighter.
C6_DestroyDetaches ==
  [][/\ out'.op = "destroy" =>
          /\ ~listening'
          /\ UNCHANGED <<tree, sel, history, at, focus, recording, prev, hlTimer,
                         recTimer, options, onUpdate, hl>>
          /\ out'.calls = {}
     /\ (~listening /\ out'.op \in EventOps) =>
          /\ out'.calls = {}
          /\ UNCHANGED <<history, at, focus, recording, prev, hlTimer, recTimer>>
     /\ (~listening /\ out'.op = "highlightTimer" /\ sel # NoSel) =>
          "highlight" \in out'.calls]_vars

C6_Witness ==
  /\ ~listening /\ out.op = "highlightTimer" /\ "highlight" \in out.calls

\* C6 as stated: after destroy() no host callback is invoked again by the
\* editor, neither by an event nor by a timer that was pending.
C6_AfterDestroyNoCallback ==
  [][(~listening /\ out'.op \in EventOps \cup {"highlightTimer", "recordTimer"}) =>
       out'.calls = {}]_vars

\* C7 as the code has it (updateCode records nothing): updateCode(code)
\* makes code the content, runs the highlighter and calls the update callback
\* when asked to; the history and the pointer stay as they are.
C7_UpdateCodeKeepsHistory ==
  [][out'.op = "updateCode" =>
       /\ history' = history /\ at' = at /\ recording' = recording
       /\ Text' \in Codes /\ tree' = Render(hl, textNodes(Text'))
       /\ out'.calls \in {{"highlight"}, {"highlight", onUpdate}}]_vars

C7_Witness ==
  /\ out.op = "updateCode" /\ out.thrown = "" /\ focus /\ sel # NoSel
  /\ history # <<>> /\ histGet(history, at).html # innerHTML(tree)

\* C7 as stated: updateCode on the focused editor records a snapshot, and one
\* undo after it brings back the content from before it.
C7_UpdateCodeUndoable ==
  [][(out'.op = "updateCode" /\ focus /\ sel # NoSel /\ Text' # Text) =>
       /\ history' # history
       /\ textContent(handleUndoRedo(Cur', UndoKey).tree) = Text]_vars

\* C9 as the code has it (save without a selection): with no anchor or focus
\* node save() throws 'error1', returns no position and changes nothing.
C9_SaveThrowsWithoutSelection ==
  [][(out'.op = "save" /\ sel = NoSel) =>
       /\ out'.thrown = "error1" /\ out'.ret = NoPos
       /\ UNCHANGED <<tree, sel, history, at>>]_vars

C9_Witness == out.op = "save" /\ out.thrown = "error1" /\ sel = NoSel

\* C9 as stated: with no selection save() does not throw and returns the
\* position of the last history record, or the zero position.
C9_SaveWithoutSelection ==
  [][(out'.op = "save" /\ sel = NoSel) =>
       /\ out'.thrown = ""
       /\ \/ out'.ret = histGet(history, at).pos
          \/ (out'.ret.start = 0 /\ out'.ret.end = 0)]_vars

\* The opening characters and the closer of each.
Opens == {"(", "[", "{", "'", "\""}
Closer(c) ==
  CASE c = "(" -> ")" [] c = "[" -> "]" [] c = "{" -> "}" [] OTHER -> c
\* The selection is a caret (collapsed).
Collapsed == sel # NoSel /\ SelOffsets[1] = SelOffsets[2]
\* The text before and after the selection's start.
TextBefore == SubSeq(Text, 1, SelOffsets[1])
TextAfter == SubSeq(Text, SelOffsets[1] + 1, Len(Text))

C12_SkipOver ==
  [][(out'.op = "keydown" /\ out'.key.key \in {")", "]", "}", "'", "\""}
        /\ ~out'.key.ctrl /\ listening /\ options.addClosing /\ Collapsed
        /\ TextAfter # <<>> /\ TextAfter[1] = out'.key.key) =>
       /\ Text' = Text
       /\ SelOffsets' = <<SelOffsets[1] + 1, SelOffsets[1] + 1>>]_vars

\* The leading whitespace of the last line of text t.
LastLineStart(t) ==
  CHOOSE i \in 0..Len(t) :
    (i = 0 \/ t[i] = "\n") /\ \A j \in (i + 1)..Len(t) : t[j] # "\n"
LastLineIndent(t) ==
  SubSeq(t, LastLineStart(t) + 1,
         LastLineStart(t) +
           (CHOOSE n \in 0..(Len(t) - LastLineStart(t)) :
              /\ \A j \in 1..n : t[LastLineStart(t) + j] \in {" ", "\t"}
              /\ n = Len(t) - LastLineStart(t)
                   \/ t[LastLineStart(t) + n + 1] \notin {" ", "\t"}))
\* The text before the caret ends with an opening bracket, the text after it
\* starts with a closing one.
AfterOpening == TextBefore # <<>> /\ TextBefore[Len(TextBefore)] \in {"(", "{", "["}
BeforeClosing == TextAfter # <<>> /\ TextAfter[1] \in {")", "}", "]"}
\* An Enter keydown is handled, with the caret collapsed, by the editor that
\* preserves the indentation.
EnterPressed ==
  /\ out'.op = "keydown" /\ out'.key = Ev("Enter", FALSE, FALSE)
  /\ listening /\ options.preserveIdent /\ Collapsed

\* C13 (indent on brace): Enter with the caret right after an opening bracket
\* and right before its closing bracket, on a line with the padding w, gives
\* the text before the caret, a line that holds w and one tab unit with the
\* caret collapsed at its end, and the closing bracket on a line of its own
\* with the padding w.
C13_IndentOnBrace ==
  [][(EnterPressed /\ AfterOpening /\ BeforeClosing) =>
       /\ out'.thrown = ""
       /\ Text' = TextBefore \o <<"\n">> \o LastLineIndent(TextBefore) \o options.tab
                     \o <<"\n">> \o LastLineIndent(TextBefore) \o TextAfter
       /\ SelOffsets' =
            <<Len(TextBefore) + 1 + Len(LastLineIndent(TextBefore)) + Len(options.tab),
              Len(TextBefore) + 1 + Len(LastLineIndent(TextBefore)) + Len(options.tab)>>]_vars

C13_Witness ==
  /\ out.op = "keydown" /\ out.key = Ev("Enter", FALSE, FALSE) /\ out.thrown = ""
  /\ Text = <<" ", "{", "\n", " ", "\t", "\n", " ", "}">> /\ SelOffsets = <<5, 5>>

TabbedAtLineStart ==
  /\ out.op = "keydown" /\ out.key = Ev("Tab", FALSE, FALSE)
  /\ out.prevented /\ out.thrown = "" /\ Collapsed
  /\ Len(TextBefore) >= Len(options.tab)
  /\ SubSeq(TextBefore, Len(TextBefore) - Len(options.tab) + 1, Len(TextBefore))
       = options.tab
  /\ LastLineStart(SubSeq(TextBefore, 1, Len(TextBefore) - Len(options.tab)))
       = Len(TextBefore) - Len(options.tab)

\* C15 as stated (Tab and Shift+Tab are inverse): after a Tab keydown with
\* the caret collapsed at a line start p, a Shift+Tab keydown that comes next
\* gives back the content from before the Tab (the content without the
\* inserted tab string) and puts the caret at p, for every tab string.
C15_TabInverse ==
  [][(TabbedAtLineStart /\ out'.op = "keydown" /\ out'.key = Ev("Tab", FALSE, TRUE)) =>
       /\ out'.thrown = ""
       /\ Text' = SubSeq(TextBefore, 1, Len(TextBefore) - Len(options.tab)) \o TextAfter
       /\ SelOffsets' = <<Len(TextBefore) - Len(options.tab),
                          Len(TextBefore) - Len(options.tab)>>]_vars

\* C15 as the code has it: the same, for a tab string made of spaces and tab
\* characters.
C15_WhitespaceTabInverse ==
  [][(TabbedAtLineStart /\ out'.op = "keydown" /\ out'.key = Ev("Tab", FALSE, TRUE)
        /\ \A i \in 1..Len(options.tab) : options.tab[i] \in {" ", "\t"}) =>
       /\ out'.thrown = "" /\ out'.prevented
       /\ Text' = SubSeq(TextBefore, 1, Len(TextBefore) - Len(options.tab)) \o TextAfter
       /\ SelOffsets' = <<Len(TextBefore) - Len(options.tab),
                          Len(TextBefore) - Len(options.tab)>>]_vars

C15_Witness ==
  /\ out.op = "keydown" /\ out.key = Ev("Tab", FALSE, TRUE) /\ out.again
  /\ out.thrown = "" /\ options.tab = <<" ", " ">>
  /\ history # <<>> /\ textContent(parseHTML(history[1].html)) = <<"a", "\n", " ", " ">>
  /\ Text = <<"a", "\n">> /\ SelOffsets = <<2, 2>>

\* The start and the end of the selection's range.
SelLo == Min(SelOffsets[1], SelOffsets[2])
SelHi == Max(SelOffsets[1], SelOffsets[2])

\* C16 (cut removes the selection): a cut event on the focused editor with a
\* non-empty selection, whichever way it was made, puts the selected text on
\* the clipboard, prevents the default action, removes exactly the selected
\* span from the content and collapses the caret at the start of the span;
\* the history then holds the content after the cut at the pointer and the
\* content before the cut right before it, which is what one undo brings back.
C16_CutRemovesSelection ==
  [][(out'.op = "cut" /\ listening /\ focus /\ sel # NoSel /\ SelLo < SelHi) =>
       /\ out'.thrown = "" /\ out'.prevented
       /\ out'.clip = SubSeq(Text, SelLo + 1, SelHi)
       /\ Text' = SubSeq(Text, 1, SelLo) \o SubSeq(Text, SelHi + 1, Len(Text))
       /\ SelOffsets' = <<SelLo, SelLo>>
       /\ at' >= 1 /\ at' = Len(history') - 1
       /\ histGet(history', at') # Hole /\ histGet(history', at' - 1) # Hole
       /\ histGet(history', at').html = innerHTML(tree')
       /\ textContent(parseHTML(histGet(history', at' - 1).html)) = Text]_vars

\* The events of the editor that C17 and C18 name.
HistoryEvents == {"keydown", "undo", "redo", "keyup", "paste", "cut",
                  "highlightTimer", "recordTimer"}

\* C17 (history off): while options.history is false, no keydown, keyup,
\* paste, cut or debounce timer changes the history list or moves the pointer.
C17_HistoryOff ==
  [][(~options.history /\ out'.op \in HistoryEvents) =>
       history' = history /\ at' = at]_vars

\* The callbacks that an event of the editor invoked.
Invoked == out.calls \cap (Callbacks \cup {"onUpdate"})

\* C18 (one update callback): onUpdate(callback) replaces the callback and
\* nothing else does; every keyup, paste, cut and notifying updateCode
\* invokes the callback registered last, and no other, with the full text of
\* the editor; updateCode(code, false) invokes none.
C18_LastCallbackOnly ==
  [][/\ onUpdate' = IF out'.op = "onUpdate" THEN out'.input ELSE onUpdate
     /\ out'.op \in {"keyup", "paste", "cut"} =>
          Invoked' = {onUpdate'} /\ out'.arg = Text' /\ out'.thrown = ""
     /\ out'.op = "updateCode" =>
          IF out'.input.notify
          THEN Invoked' = {onUpdate'} /\ out'.arg = Text' /\ Text' = out'.input.code
          ELSE Invoked' = {}]_vars

\* C18 as the listeners have it: the same, for every keyup that is not part
\* of a composition session; a keyup with isComposing invokes no callback.
C18_LastCallbackUnlessComposing ==
  [][/\ onUpdate' = IF out'.op = "onUpdate" THEN out'.input ELSE onUpdate
     /\ out'.op \in {"keyup", "paste", "cut"} =>
          IF out'.op = "keyup" /\ out'.key.isComposing
          THEN Invoked' = {}
          ELSE Invoked' = {onUpdate'} /\ out'.arg = Text' /\ out'.thrown = ""
     /\ out'.op = "updateCode" =>
          IF out'.input.notify
          THEN Invoked' = {onUpdate'} /\ out'.arg = Text' /\ Text' = out'.input.code
          ELSE Invoked' = {}]_vars

C18_Witness ==
  /\ out.op = "keyup" /\ ~out.key.isComposing /\ onUpdate = "g" /\ Invoked = {"g"}
  /\ out.arg = Text /\ Text = <<"a", "a">> /\ steps = MaxSteps

\* The plain Tab key.
TabKey == Ev("Tab", FALSE, FALSE)

\* C19 (options are live): updateOptions(newOptions) sets exactly the options
\* it is given, every other option keeps its value and nothing else changes
\* the options; a Tab keydown reads the options as they are at the event:
\* with catchTab off it is not handled (not prevented, text unchanged), with
\* catchTab on it is prevented and puts the current tab string at the caret.
C19_OptionsLive ==
  [][/\ out'.op = "updateOptions" =>
          \A k \in DOMAIN options :
             options'[k] = IF k \in DOMAIN out'.input THEN out'.input[k] ELSE options[k]
     /\ out'.op # "updateOptions" => options' = options
     /\ (out'.op = "keydown" /\ out'.key = TabKey /\ Collapsed) =>
          IF options.catchTab
          THEN /\ out'.prevented /\ out'.thrown = ""
               /\ Text' = TextBefore \o options.tab \o TextAfter
               /\ SelOffsets' = <<SelOffsets[1] + Len(options.tab),
                                   SelOffsets[1] + Len(options.tab)>>
          ELSE ~out'.prevented /\ Text' = Text /\ SelOffsets' = SelOffsets]_vars

\* A Tab typed after updateOptions({tab: two spaces}) and
\* updateOptions({history: false}).
C19_Witness ==
  /\ out.op = "keydown" /\ out.key = TabKey /\ out.prevented
  /\ options = [DefaultOptions EXCEPT !.tab = <<" ", " ">>, !.history = FALSE]
  /\ Text = <<" ", " ", "a">> /\ SelOffsets = <<2, 2>>

\* A Tab typed after updateOptions({catchTab: false}).
C19_WitnessOff ==
  /\ out.op = "keydown" /\ out.key = TabKey /\ ~out.prevented /\ ~options.catchTab

\* C20 (initial highlight): when CodeJar(editor, highlight, options) returns,
\* before any event is handled, the highlighter has been invoked on the
\* editor.
C20_InitialHighlight == out.op = "construct" => "highlight" \in out.calls

\* C21 (paste without text): a paste whose event has no clipboardData, or
\* none of type text/plain, throws nothing and leaves the content as it was
\* with only the selected span, if there is one, removed.
C21_PasteNothing ==
  [][(out'.op = "paste" /\ listening /\ sel # NoSel /\ out'.input \in {Undefined, <<>>}) =>
       /\ out'.thrown = ""
       /\ Text' = SubSeq(Text, 1, SelLo) \o SubSeq(Text, SelHi + 1, Len(Text))]_vars

\* C22 (history pointer): in every reachable state the pointer is at least
\* -1 and below the length of the history list, and every index of the list
\* holds a record.
C22_PointerInRange ==
  /\ 0 - 1 <= at /\ at < Len(history)
  /\ \A i \in 1..Len(history) : history[i] # Hole

\* The state is in the history at the pointer.
Recorded ==
  /\ 0 <= at /\ at < Len(history) /\ histGet(history, at) # Hole
  /\ histGet(history, at).html = innerHTML(tree)

\* C23 (trailing snapshot): whenever the latch is on and every key has come
\* up (a qualifying keydown took its snapshot, the keyups came), the focused
\* editor eventually has the latch off with its content recorded at the
\* pointer, whatever keys were pressed in between.
C23_TrailingSnapshot ==
  [](recording /\ held.down = {} => <>(~recording /\ Recorded))

\* C24 (re-highlight): whenever a keydown has changed the text and every key
\* has come up, the highlighter is eventually invoked, in whatever order the
\* keys went down and came up.
C24_Rehighlight ==
  [](held.dirty /\ held.down = {} => <>~held.dirty)

\* C25 (insert replaces the selection): whichever way the selection was
\* made, insert(text) makes the content the text before the selection, then
\* text, then the text after the selection, and leaves the caret collapsed
\* right after the inserted text; with a collapsed caret nothing is removed.
C25_InsertReplaces ==
  [][(out'.op = "insert" /\ sel # NoSel) =>
       /\ out'.thrown = ""
       /\ Text' = SubSeq(Text, 1, SelLo) \o out'.input \o SubSeq(Text, SelHi + 1, Len(Text))
       /\ SelOffsets' = <<SelLo + Len(out'.input), SelLo + Len(out'.input)>>]_vars

\* save() returned, or recordHistory() stored, the position pos.
Returned(pos) ==
  \/ out'.op = "save" /\ out'.thrown = "" /\ pos = out'.ret
  \/ /\ out'.op = "recordHistory" /\ out'.thrown = "" /\ history' # history
     /\ pos = histGet(history', at').pos
\* Anchor and focus are in text nodes.
InTextNodes ==
  /\ sel.a.node # <<>> /\ IsText(NodeAt(tree, sel.a.node))
  /\ sel.f.node # <<>> /\ IsText(NodeAt(tree, sel.f.node))

\* C26 (save returns document order): the position that save() returns, and
\* the position stored in a history record, has start at the offset of the
\* earlier of anchor and focus and end at the offset of the later one, so
\* start <= end; the direction is forward when the anchor is before the
\* focus and backward when it is after it.
C26_SaveInOrder ==
  [][\A pos \in {out'.ret, histGet(history', at').pos} :
       Returned(pos) =>
         /\ pos.start <= pos.end
         /\ InTextNodes => pos.start = SelLo /\ pos.end = SelHi
         /\ SelOffsets[1] < SelOffsets[2] => pos.dir = "->"
         /\ SelOffsets[1] > SelOffsets[2] => pos.dir = "<-"]_vars

\* C26 as save() has it: start is the offset of the anchor and end the
\* offset of the focus (for endpoints in text nodes), so start > end for a
\* selection made backwards; the direction is "->" or "<-", it is forward
\* when the anchor is before the focus and backward when it is after it,
\* start <= end in a forward position and start >= end in a backward one.
C26_SaveAnchorFocus ==
  [][\A pos \in {out'.ret, histGet(history', at').pos} :
       Returned(pos) =>
         /\ pos.dir \in {"->", "<-"}
         /\ pos.dir = "->" => pos.start <= pos.end
         /\ pos.dir = "<-" => pos.start >= pos.end
         /\ InTextNodes => pos.start = SelOffsets[1] /\ pos.end = SelOffsets[2]
         /\ SelOffsets[1] < SelOffsets[2] => pos.dir = "->"
         /\ SelOffsets[1] > SelOffsets[2] => pos.dir = "<-"]_vars

\* save() on a selection made backwards, then recordHistory().
C26_Witness ==
  /\ out.op = "recordHistory" /\ history # <<>>
  /\ histGet(history, at).pos = Pos(2, 1, "<-") /\ SelOffsets = <<2, 1>>

\* C27 (records are immutable): an undo or a redo leaves the history list as
\* it is; an operation that records keeps every record up to the pointer as
\* it was recorded, at its index or moved down by the eviction of the oldest
\* records.
C27_RecordsImmutable ==
  [][/\ out'.op \in {"undo", "redo"} => history' = history
     /\ out'.op \in {"recordHistory", "paste", "cut", "recordTimer", "keydown"} =>
          \E k \in 0..2 :
             \A i \in k..at : histGet(history', i - k) = histGet(history, i)]_vars

\* The operations that call recordHistory.
RecordOps == {"recordHistory", "paste", "cut", "recordTimer", "keydown"}

\* C28 (linear history): when an operation appends a record, no record is
\* left after the pointer (at = length - 1); a redo with the pointer on the
\* last record changes neither the content, the selection, the history nor
\* the pointer, whatever undos and redos came before.
C28_LinearHistory ==
  [][/\ (out'.op \in RecordOps /\ (at' # at \/ history' # history)) =>
          at' = Len(history') - 1
     /\ (out'.op = "redo" /\ listening /\ at = Len(history) - 1) =>
          /\ UNCHANGED <<tree, sel, history, at>>
          /\ out'.prevented /\ out'.thrown = ""]_vars

\* A paste right after an undo from "a" back to the empty text (prev is the
\* text at that keydown): the record after the pointer was discarded and the
\* record of the paste is the last one.
C28_Witness ==
  /\ out.op = "paste" /\ at = 1 /\ Len(history) = 2
  /\ histGet(history, 0).html = <<>> /\ histGet(history, 1).html = <<"a">>
  /\ Text = <<"a">> /\ ~recording /\ recTimer = NoEvent /\ prev = <<"a">>

\* C29 (recording latch): between two callbacks of debounceRecordHistory that
\* recorded, the keydown handler adds at most one record to the history, and
\* from that record on the latch is set: a keydown adds a record only when
\* the latch was released before it.
C29_RecordingLatch ==
  /\ held.on => held.shots <= 1
  /\ held.on /\ held.shots = 1 => recording

\* The second keydown of "a" in one burst: one record, of the empty text.
C29_Witness ==
  /\ held.on /\ held.shots = 1 /\ out.op = "keydown" /\ out.key.key = "a"
  /\ Text = <<"a", "a">> /\ recording /\ Len(history) = 1 /\ at = 0
  /\ histGet(history, 0).html = <<>>

\* The pending calls of the debouncer d.
Pending(d) == {x \in timers.table : x.cb = d}

\* C30 (debounce cancellation): each debouncer has at most one call pending;
\* the pending call is the last one, with its arguments and a full wait
\* counted from it (hlTimer and recTimer say the same); the callback that ran
\* last got the arguments of the last call, a full wait after it, and was the
\* only run for that call.
C30_DebounceCancels ==
  timers.on =>
    /\ \A d \in Debouncers :
         /\ Cardinality(Pending(d)) <= 1
         /\ \A x \in Pending(d) :
              /\ x.id = timers.timeout[d] /\ x.args = timers.last[d].args
              /\ x.left = Wait(d) - timers.last[d].ago /\ timers.last[d].runs = 0
         /\ timers.last[d].runs <= 1
    /\ hlTimer = (Pending("debounceHighlight") # {})
    /\ Pending("debounceRecordHistory") =
         {x \in timers.table : x.cb = "debounceRecordHistory" /\ x.args = recTimer}
    /\ (recTimer = NoEvent) = (Pending("debounceRecordHistory") = {})
    /\ timers.fired.cb \in Debouncers =>
         /\ timers.fired.args = timers.fired.wanted
         /\ timers.fired.ago = Wait(timers.fired.cb) /\ timers.fired.runs = 0

\* Three keyups, none of them a full 300 ms after the one before, the last
\* one of ArrowLeft, then the callback of debounceRecordHistory: it ran once,
\* for that last keyup.
C30_Witness ==
  /\ timers.on /\ out.op = "recordTimer" /\ timers.fired.calls = 3
  /\ timers.fired.cb = "debounceRecordHistory" /\ timers.fired.args.key = "ArrowLeft"
  /\ timers.last["debounceRecordHistory"].runs = 1 /\ timers.table = {}

\* The node p is in a subtree marked contenteditable="false".
RECURSIVE Protected(_, _)
Protected(ks, p) ==
  /\ p # <<>>
  /\ \/ (~IsText(NodeAt(ks, p)) /\ ~NodeAt(ks, p).ce)
     \/ Protected(ks, Front(p))

\* C31 (restore keeps out of non-editable content): after restore(pos) has
\* returned, neither the anchor nor the focus is in a subtree marked
\* contenteditable="false", nested subtrees included.
C31_RestoreOutsideProtected ==
  (out.op = "restore" /\ out.thrown = "") =>
    (~Protected(tree, sel.a.node) /\ ~Protected(tree, sel.f.node))

\* The self-closing handler may fire: the character before the caret is not a
\* backslash and, for a bracket, what follows the caret is a space, a newline
\* or the end of the content.
Escaped == TextBefore # <<>> /\ TextBefore[Len(TextBefore)] = "\\"
BlankAfter == TextAfter = <<>> \/ TextAfter[1] \in {" ", "\n"}

\* C32 (auto-close gating): at a caret, a keydown of an opening character
\* after a backslash, or of a bracket before anything but a space, a newline
\* or the end, gets no closing character: the handler leaves the event to the
\* user agent, which types the character alone; a quote that is not after a
\* backslash is closed whatever follows.
C32_AutoCloseGated ==
  [][(out'.op = "keydown" /\ out'.key.key \in Opens /\ ~out'.key.ctrl
        /\ listening /\ options.addClosing /\ Collapsed) =>
       /\ (Escaped \/ (out'.key.key \in {"(", "[", "{"} /\ ~BlankAfter)) =>
            /\ ~out'.prevented
            /\ Text' = TextBefore \o <<out'.key.key>> \o TextAfter
       /\ (~Escaped /\ out'.key.key \in {"'", "\""}) =>
            Text' = TextBefore \o <<out'.key.key, Closer(out'.key.key)>> \o TextAfter]_vars

\* The text between the two ends of the selection.
Selected == SubSeq(Text, SelLo + 1, SelHi)

\* C33 (wrapping a selection): with addClosing on and a selection of the
\* offsets a < b, made forwards or backwards, a keydown of an opening
\* character c makes the content content[0..a) + c + content[a..b) +
\* closer(c) + content[b..) and leaves a caret after the wrapped text.
C33_WrapSelection ==
  [][(out'.op = "keydown" /\ out'.key.key \in Opens /\ ~out'.key.ctrl
        /\ listening /\ options.addClosing /\ sel # NoSel /\ SelLo < SelHi) =>
       /\ Text' = SubSeq(Text, 1, SelLo) \o <<out'.key.key>> \o Selected
                    \o <<Closer(out'.key.key)>> \o SubSeq(Text, SelHi + 1, Len(Text))
       /\ SelOffsets' = <<SelHi + 1, SelHi + 1>>]_vars

\* The text before the selection, where its last line starts, and what
\* Shift+Tab removes: the shorter of the tab string and the leading whitespace
\* of that line before the selection.
BeforeSel == SubSeq(Text, 1, SelLo)
LineStart == LastLineStart(BeforeSel)
Outdent == Min(Len(options.tab), Len(LastLineIndent(BeforeSel)))

\* C34 (Shift+Tab): a keydown of Shift+Tab removes min(length of the tab
\* string, length of the leading whitespace of the current line before the
\* caret) characters from the start of the current line and moves both ends
\* of the selection left by that amount, not below the line start; without
\* leading whitespace before the caret nothing changes.
C34_ShiftTabAmount ==
  [][(out'.op = "keydown" /\ out'.key = Ev("Tab", FALSE, TRUE)
        /\ listening /\ options.catchTab /\ sel # NoSel) =>
       /\ out'.thrown = "" /\ out'.prevented
       /\ Text' = SubSeq(Text, 1, LineStart)
                    \o SubSeq(Text, LineStart + Outdent + 1, Len(Text))
       /\ SelOffsets' = <<SelOffsets[1] - Outdent, SelOffsets[2] - Outdent>>
       /\ SelLo - Outdent >= LineStart]_vars

\* Shift+Tab as the first key, with a tab string of two spaces, on " a" with
\* the caret at the end: the one space is removed, the caret is after "a".
C34_Witness ==
  /\ out.op = "keydown" /\ out.key = Ev("Tab", FALSE, TRUE) /\ out.thrown = ""
  /\ out.prevented /\ steps = MaxSteps - KeySteps + 1
  /\ options.tab = <<" ", " ">> /\ Text = <<"a">> /\ SelOffsets = <<1, 1>>

\* C35 (no keystroke applied twice): a keydown whose handler (new line, tab,
\* self-closing, undo/redo) changed the content or the selection has its
\* default action prevented, and at most one of the handlers changed them.
C35_AppliedOnce ==
  (out.op \in {"keydown", "undo", "redo"}) =>
    /\ out.edits # {} => out.prevented
    /\ Cardinality(out.edits) <= 1

\* A keydown of ( in the empty editor: the self-closing handler typed the
\* pair and the user agent typed nothing.
C35_Witness ==
  /\ out.op = "keydown" /\ out.key.key = "(" /\ out.prevented
  /\ out.edits = {"handleSelfClosingCharacters"}
  /\ Text = <<"(", ")">> /\ SelOffsets = <<1, 1>>

\* The tree has no subtree marked contenteditable="false".
Editable(ks) == \A i \in 1..Len(visit(ks)) : ~Protected(ks, visit(ks)[i])

\* The direction of p agrees with its offsets: forward with start <= end,
\* backward with start >= end; and the offsets are in the text.
Agrees(p) ==
  \/ p.dir = "->" /\ p.start <= p.end
  \/ p.dir = "<-" /\ p.start >= p.end
InText(p) ==
  /\ 0 <= p.start /\ p.start <= Len(Text)
  /\ 0 <= p.end /\ p.end <= Len(Text)

\* C36 (position round trip): in a tree without non-editable subtrees, for a
\* position p in the text whose direction agrees with its offsets, save()
\* right after restore(p) returns p.start and p.end, and the direction of p
\* when they differ.
C36_PositionRoundTrip ==
  [][(out.op = "restore" /\ out.thrown = "" /\ out'.op = "save"
        /\ Editable(tree) /\ Agrees(out.input) /\ InText(out.input)) =>
       /\ out'.thrown = ""
       /\ out'.ret.start = out.input.start /\ out'.ret.end = out.input.end
       /\ out.input.start # out.input.end => out'.ret.dir = out.input.dir]_vars

\* restore({start: 2, end: 1, dir: '<-'}) and then save() on "a" and a span
\* with "b": the anchor is at the end of the content, the focus on the
\* boundary of the two text nodes.
C36_Witness ==
  /\ out.op = "save" /\ out.thrown = "" /\ out.ret = Pos(2, 1, "<-")
  /\ steps = MaxSteps - RestoreSteps + 2
  /\ tree = <<TextNode(<<"a">>), ElNode(TRUE, <<TextNode(<<"b">>)>>)>>

\* C37 (restore is idempotent and keeps its argument): restore(p) leaves
\* p.start and p.end of a position in the text as they were, and a second
\* restore(p) with the same object leaves the selection of the first.
C37_RestoreIdempotent ==
  [][/\ (out'.op = "restore" /\ out'.thrown = "" /\ InText(out'.input)) =>
          /\ out'.ret.start = out'.input.start
          /\ out'.ret.end = out'.input.end
     /\ (out.op = "restore" /\ out.thrown = "" /\ InText(out.input)
           /\ out'.op = "restore" /\ out'.input = out.ret) =>
          /\ out'.thrown = "" /\ sel' = sel /\ tree' = tree]_vars

\* C38 (save and restore keep the text): a call of save() or restore() leaves
\* the concatenated text content as it was, and the tree it leaves differs
\* from the one it found only by empty or adjacent text nodes.
C38_TextKept ==
  [][(out'.op \in {"save", "restore"}) =>
       /\ toString([tree |-> tree']) = toString([tree |-> tree])
       /\ normalize(tree') = normalize(tree)]_vars

\* restore({start: 1, end: 1}) on "a" and a non-editable span with "b": both
\* nodes found are in the span, two empty text nodes were put before it and
\* normalize() merged them into "a", where the caret is left.
C38_Witness ==
  /\ out.op = "restore" /\ out.thrown = "" /\ out.input = Pos(1, 1, "->")
  /\ tree = <<TextNode(<<"a">>), ElNode(FALSE, <<TextNode(<<"b">>)>>)>>
  /\ sel = [a |-> BP(<<1>>, 1), f |-> BP(<<1>>, 1)]

\* The strings findPadding is given in this state: the text before a caret
\* anywhere in the content.
Befores == {SubSeq(Text, 1, k) : k \in 0..Len(Text)}

\* i is the index just after the last newline of t, 0 when t has none.
AfterLastNewline(t, i) ==
  /\ i \in 0..Len(t)
  /\ i = 0 \/ t[i] = "\n"
  /\ \A n \in (i + 1)..Len(t) : t[n] # "\n"

\* j is the first index from i on whose character is neither a space nor a
\* tab, the length of t when there is none.
FirstNonBlank(t, i, j) ==
  /\ j \in i..Len(t)
  /\ \A n \in (i + 1)..j : t[n] \in {" ", "\t"}
  /\ j = Len(t) \/ t[j + 1] \notin {" ", "\t"}

\* C39 (findPadding): for every text before the caret, findPadding returns
\* (padding, lineStart, paddingEnd) with lineStart the index just after the
\* last newline (0 without one), paddingEnd the first index from lineStart
\* on that holds neither a space nor a tab (the length without one), and
\* padding the characters from lineStart up to paddingEnd.
C39_FindPadding ==
  \A t \in Befores :
    /\ AfterLastNewline(t, findPadding(t)[2])
    /\ FirstNonBlank(t, findPadding(t)[2], findPadding(t)[3])
    /\ findPadding(t)[1] = SubSeq(t, findPadding(t)[2] + 1, findPadding(t)[3])

\* Tab (two spaces) and then Enter after "a" and a newline: findPadding was
\* given the text that ends in the two spaces, and the new line took them as
\* its padding; the empty string and the string that ends in a newline are
\* among the texts before the caret.
C39_Witness ==
  /\ out.op = "keydown" /\ out.key = Ev("Enter", FALSE, FALSE) /\ out.prevented
  /\ Text = <<"a", "\n", " ", " ", "\n", " ", " ">>
  /\ findPadding(Text) = << <<" ", " ">>, 5, 7 >>
  /\ findPadding(<<"a", "\n">>) = <<<<>>, 2, 2>>
  /\ findPadding(<<>>) = <<<<>>, 0, 0>>
====
